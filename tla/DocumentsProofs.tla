--------------------------- MODULE DocumentsProofs ---------------------------
(***************************************************************************)
(* Theorems about Documents, and their proofs: the types, and that what a  *)
(* message was prepared with arrives.                                      *)
(***************************************************************************)
EXTENDS Documents, TLAPS

-----------------------------------------------------------------------------
(* The documents of handles, as sets.                                      *)

ObjectOf(V) == UNION {[K -> V] : K \in SUBSET Key}
FlatDoc == Seq(Flat) \cup ObjectOf(Flat)
Value == Flat \cup ({"array"} \X Seq(Flat)) \cup ({"object"} \X ObjectOf(Flat))

Filed ==
  /\ doc \in [Handle -> Seq(Value) \cup ObjectOf(Value)]
  /\ \A o \in Object : doc[o] \in ObjectOf(Value)
  /\ \A a \in Array : doc[a] \in Seq(Value)

LEMMA FlatIsFlat ==
  ASSUME NEW v \in Flat
  PROVE  /\ ~Nests(v) /\ v = <<v[1], v[2]>>
         /\ v[1] \in {"int", "string", "bool", "lent"}
  BY DEF Flat, Scalar, Nests

LEMMA ValueShape ==
  ASSUME NEW v \in Value
  PROVE  /\ v = <<v[1], v[2]>>
         /\ Nests(v) \/ v \in Flat
         /\ v[1] = "array" => v[2] \in Seq(Flat)
         /\ v[1] = "object" => v[2] \in ObjectOf(Flat)
<1>1. CASE v \in Flat
  BY <1>1, FlatIsFlat
<1>2. CASE v \in {"array"} \X Seq(Flat)
  BY <1>2 DEF Nests
<1>3. CASE v \in {"object"} \X ObjectOf(Flat)
  BY <1>3 DEF Nests
<1>4. QED
  BY <1>1, <1>2, <1>3 DEF Value

LEMMA ObjectShape ==
  ASSUME NEW V, NEW d \in ObjectOf(V)
  PROVE  /\ DOMAIN d \subseteq Key
         /\ d = [s \in DOMAIN d |-> d[s]]
         /\ \A s \in DOMAIN d : d[s] \in V
  BY DEF ObjectOf

\* A document in a handle's document holds no other.
LEMMA FlatInside ==
  ASSUME NEW v \in Value, Nests(v)
  PROVE  \A r \in DOMAIN v[2] : ~Nests(v[2][r])
<1>1. v[2] \in Seq(Flat) \/ v[2] \in ObjectOf(Flat)
  BY ValueShape DEF Nests
<1>2. \A r \in DOMAIN v[2] : v[2][r] \in Flat
  BY <1>1, ObjectShape
<1>3. QED
  BY <1>2, FlatIsFlat

LEMMA ObjectIs ==
  ASSUME NEW V, NEW d, DOMAIN d \subseteq Key, d = [s \in DOMAIN d |-> d[s]],
         \A s \in DOMAIN d : d[s] \in V
  PROVE  d \in ObjectOf(V)
<1>1. d \in [DOMAIN d -> V]
  OBVIOUS
<1>2. QED
  BY <1>1 DEF ObjectOf

LEMMA EmptyIsBoth ==
  ASSUME NEW V
  PROVE  <<>> \in Seq(V) /\ <<>> \in ObjectOf(V) /\ DOMAIN <<>> = {}
<1>1. <<>> \in [{} -> V]
  OBVIOUS
<1>2. QED
  BY <1>1 DEF ObjectOf

\* A value is one, as the type invariant says it.
LEMMA ValueIsValue ==
  ASSUME NEW v \in Value
  PROVE  IsValue(v)
<1>1. CASE v \in Flat
  BY <1>1 DEF IsValue
<1>2. CASE v \in {"array"} \X Seq(Flat)
  <2>1. v[1] = "array" /\ v[2] \in Seq(Flat)
    BY <1>2
  <2>2. IsArray(v[2]) /\ \A s \in DOMAIN v[2] : v[2][s] \in Flat
    BY <2>1 DEF IsArray
  <2>3. QED
    BY <2>1, <2>2 DEF IsValue
<1>3. CASE v \in {"object"} \X ObjectOf(Flat)
  <2>1. v[1] = "object" /\ v[2] \in ObjectOf(Flat)
    BY <1>3
  <2>2. IsObject(v[2]) /\ \A s \in DOMAIN v[2] : v[2][s] \in Flat
    BY <2>1, ObjectShape DEF IsObject
  <2>3. QED
    BY <2>1, <2>2 DEF IsValue
<1>4. QED
  BY <1>1, <1>2, <1>3 DEF Value

LEMMA FiledIsTyped ==
  ASSUME Filed
  PROVE  /\ \A o \in Object : IsObject(doc[o])
         /\ \A a \in Array : IsArray(doc[a])
         /\ \A h \in Handle : \A s \in DOMAIN doc[h] : doc[h][s] \in Value
<1>1. \A o \in Object : IsObject(doc[o])
  BY ObjectShape DEF Filed, IsObject
<1>2. \A a \in Array : IsArray(doc[a])
  BY DEF Filed, IsArray
<1>3. ASSUME NEW h \in Handle, NEW s \in DOMAIN doc[h]
      PROVE  doc[h][s] \in Value
  <2>1. CASE h \in Object
    BY <2>1, ObjectShape DEF Filed
  <2>2. CASE h \in Array
    BY <2>2 DEF Filed
  <2>3. QED
    BY <2>1, <2>2 DEF Handle
<1>4. QED
  BY <1>1, <1>2, <1>3

\* What can be set in a document: a scalar, or a document that holds none.
LEMMA SettableIsValue ==
  ASSUME Filed, NEW h \in Handle, NEW v \in Settable(h)
  PROVE  v \in Value
<1>1. CASE v \in Scalar
  BY <1>1 DEF Value, Flat
<1>2. CASE v \notin Scalar
  <2>1. PICK g \in Handle : /\ v = Copy(g)
                            /\ \A s \in DOMAIN doc[g] : ~Nests(doc[g][s])
    BY <1>2 DEF Settable
  <2>2. \A s \in DOMAIN doc[g] : doc[g][s] \in Flat
    BY <2>1, FiledIsTyped, ValueShape
  <2>3. CASE g \in Array
    <3>1. doc[g] \in Seq(Value)
      BY <2>3 DEF Filed
    <3>2. doc[g] \in Seq(Flat)
      BY <3>1, <2>2
    <3>3. v = <<"array", doc[g]>>
      BY <2>1, <2>3 DEF Copy
    <3>4. QED
      BY <3>2, <3>3 DEF Value
  <2>4. CASE g \notin Array
    <3>1. doc[g] \in ObjectOf(Value)
      BY <2>4 DEF Filed, Handle
    <3>2. doc[g] \in ObjectOf(Flat)
      BY <3>1, <2>2, ObjectShape, ObjectIs
    <3>3. v = <<"object", doc[g]>>
      BY <2>1, <2>4 DEF Copy
    <3>4. QED
      BY <3>2, <3>3 DEF Value
  <2>5. QED
    BY <2>3, <2>4
<1>3. QED
  BY <1>1, <1>2

LEMMA InPlaceIsValue ==
  ASSUME NEW v \in Value
  PROVE  InPlace(v) \in Value
<1>1. CASE v[1] = "string"
  <2>1. v \in Flat
    BY <1>1, ValueShape DEF Nests
  <2>2. v[2] \in Text
    BY <2>1, <1>1 DEF Flat, Scalar
  <2>3. QED
    BY <2>2, <1>1 DEF InPlace, Value, Flat
<1>2. CASE v[1] # "string"
  BY <1>2 DEF InPlace
<1>3. QED
  BY <1>1, <1>2

\* A document in the handle's own set takes the place of the handle's.
LEMMA BecomesFiled ==
  ASSUME Filed, NEW h \in Handle, NEW d, Becomes(h, d),
         h \in Object => d \in ObjectOf(Value),
         h \in Array => d \in Seq(Value)
  PROVE  Filed'
<1>1. doc' = [doc EXCEPT ![h] = d] /\ d \in Seq(Value) \cup ObjectOf(Value)
  BY DEF Becomes, Handle
<1>2. QED
  BY <1>1 DEF Filed

LEMMA ReplacedInObject ==
  ASSUME NEW d \in ObjectOf(Value), NEW s \in DOMAIN d, NEW v \in Value
  PROVE  Replaced(d, s, v) \in ObjectOf(Value)
<1>1. PICK K \in SUBSET Key : d \in [K -> Value]
  BY DEF ObjectOf
<1>2. [d EXCEPT ![s] = InPlace(v)] \in [K -> Value]
  BY <1>1, InPlaceIsValue
<1>3. QED
  BY <1>1, <1>2 DEF Replaced, ObjectOf

LEMMA ReplacedInArray ==
  ASSUME NEW d \in Seq(Value), NEW s \in DOMAIN d, NEW v \in Value
  PROVE  Replaced(d, s, v) \in Seq(Value)
<1>1. InPlace(v) \in Value
  BY InPlaceIsValue
<1>2. [d EXCEPT ![s] = InPlace(v)] \in Seq(Value)
  BY <1>1
<1>3. QED
  BY <1>2 DEF Replaced
\* Every operation on a handle leaves documents in the handles.
LEMMA FillKeepsFiled ==
  ASSUME Filed, Fill
  PROVE  Filed'
<1>1. CASE \E o \in Object, k \in Key : \E v \in Settable(o) : SetInObject(o, k, v)
  <2>1. PICK o \in Object, k \in Key : \E v \in Settable(o) : SetInObject(o, k, v)
    BY <1>1
  <2>2. PICK v \in Settable(o) : SetInObject(o, k, v)
    BY <2>1
  <2>3. o \in Handle /\ o \notin Array
    BY HandlesAssumption DEF Handle
  <2>4. v \in Value /\ doc[o] \in ObjectOf(Value)
    BY <2>3, SettableIsValue DEF Filed
  <2>5. CASE k \in DOMAIN doc[o]
    BY <2>2, <2>3, <2>4, <2>5, ReplacedInObject, BecomesFiled DEF SetInObject
  <2>6. CASE k \notin DOMAIN doc[o]
    <3>1. PICK K \in SUBSET Key : doc[o] \in [K -> Value]
      BY <2>4 DEF ObjectOf
    <3>2. Over(doc[o], [j \in {k} |-> v]) \in [K \cup {k} -> Value]
      BY <2>4, <3>1 DEF Over
    <3>3. Over(doc[o], [j \in {k} |-> v]) \in ObjectOf(Value)
      BY <3>2 DEF ObjectOf
    <3>4. QED
      BY <2>2, <2>3, <2>6, <3>3, BecomesFiled DEF SetInObject
  <2>7. QED
    BY <2>5, <2>6
<1>2. CASE \E o \in Object, k \in Key : RemoveKey(o, k)
  <2>1. PICK o \in Object, k \in Key : RemoveKey(o, k)
    BY <1>2
  <2>2. o \in Handle /\ o \notin Array
    BY HandlesAssumption DEF Handle
  <2>3. PICK K \in SUBSET Key : doc[o] \in [K -> Value]
    BY DEF Filed, ObjectOf
  <2>4. [j \in DOMAIN doc[o] \ {k} |-> doc[o][j]] \in [K \ {k} -> Value]
    BY <2>3
  <2>5. [j \in DOMAIN doc[o] \ {k} |-> doc[o][j]] \in ObjectOf(Value)
    BY <2>4 DEF ObjectOf
  <2>6. QED
    BY <2>1, <2>2, <2>5, BecomesFiled DEF RemoveKey
<1>3. CASE \E a \in Array : \E v \in Settable(a) : PushBack(a, v)
  <2>1. PICK a \in Array : \E v \in Settable(a) : PushBack(a, v)
    BY <1>3
  <2>2. PICK v \in Settable(a) : PushBack(a, v)
    BY <2>1
  <2>3. a \in Handle /\ a \notin Object
    BY HandlesAssumption DEF Handle
  <2>4. v \in Value /\ doc[a] \in Seq(Value)
    BY <2>3, SettableIsValue DEF Filed
  <2>5. Append(doc[a], v) \in Seq(Value)
    BY <2>4
  <2>6. QED
    BY <2>2, <2>3, <2>5, BecomesFiled DEF PushBack
<1>4. CASE \E a \in Array, i \in 1 .. MaxSize : \E v \in Settable(a) : SetInArray(a, i, v)
  <2>1. PICK a \in Array, i \in 1 .. MaxSize : \E v \in Settable(a) : SetInArray(a, i, v)
    BY <1>4
  <2>2. PICK v \in Settable(a) : SetInArray(a, i, v)
    BY <2>1
  <2>3. a \in Handle /\ a \notin Object
    BY HandlesAssumption DEF Handle
  <2>4. v \in Value /\ doc[a] \in Seq(Value)
    BY <2>3, SettableIsValue DEF Filed
  <2>5. QED
    BY <2>2, <2>3, <2>4, ReplacedInArray, BecomesFiled DEF SetInArray
<1>5. CASE \E a \in Array : PopBack(a)
  <2>1. PICK a \in Array : PopBack(a)
    BY <1>5
  <2>2. a \in Handle /\ a \notin Object
    BY HandlesAssumption DEF Handle
  <2>3. doc[a] \in Seq(Value) /\ doc[a] # <<>>
    BY <2>1 DEF Filed, PopBack
  <2>4. SubSeq(doc[a], 1, Len(doc[a]) - 1) \in Seq(Value)
    BY <2>3
  <2>5. QED
    BY <2>1, <2>2, <2>4, BecomesFiled DEF PopBack
<1>6. CASE \E h \in Handle : Clear(h)
  BY <1>6, EmptyIsBoth, BecomesFiled DEF Clear
<1>7. CASE \E h \in Handle : \E g \in Handle \ {h}, s \in DOMAIN doc[h] : Val(h, s, g)
  <2>1. PICK h \in Handle : \E g \in Handle \ {h}, s \in DOMAIN doc[h] : Val(h, s, g)
    BY <1>7
  <2>2. PICK g \in Handle \ {h}, s \in DOMAIN doc[h] : Val(h, s, g)
    BY <2>1
  <2>3. doc[h][s] \in Value
    BY FiledIsTyped
  <2>4. ASSUME g \in Array
        PROVE  doc[h][s][2] \in Seq(Value)
    <3>1. doc[h][s][1] = "array"
      BY <2>2, <2>4 DEF Val, Copy
    <3>2. doc[h][s][2] \in Seq(Flat)
      BY <2>3, <3>1, ValueShape
    <3>3. QED
      BY <3>2 DEF Value
  <2>5. ASSUME g \in Object
        PROVE  doc[h][s][2] \in ObjectOf(Value)
    <3>1. doc[h][s][1] = "object"
      BY <2>2, <2>5, HandlesAssumption DEF Val, Copy
    <3>2. doc[h][s][2] \in ObjectOf(Flat)
      BY <2>3, <3>1, ValueShape
    <3>3. QED
      BY <3>2, ObjectShape, ObjectIs DEF Value
  <2>6. QED
    BY <2>2, <2>4, <2>5, BecomesFiled DEF Val
<1>8. QED
  BY <1>1, <1>2, <1>3, <1>4, <1>5, <1>6, <1>7 DEF Fill

-----------------------------------------------------------------------------
(* What is read of a document agrees with it and holds no pointer, if it   *)
(* has as many levels as Read goes down.                                   *)

\* Two levels, as in a handle; and three, as in a payload.
Shallow(d) ==
  \A s \in DOMAIN d : Nests(d[s]) => \A r \in DOMAIN d[s][2] : ~Nests(d[s][2][r])
Nested(d) == \A s \in DOMAIN d : Nests(d[s]) => Shallow(d[s][2])

LEMMA FlatRead ==
  ASSUME NEW d, NEW t, \A s \in DOMAIN d : ~Nests(d[s])
  PROVE  AgreesFlat(d, ReadFlat(d, t)) /\ OwnsFlat(ReadFlat(d, t))
  BY DEF AgreesFlat, ReadFlat, Matches, ReadAll, OwnsFlat, Nests, TypeOf

LEMMA ShallowRead ==
  ASSUME NEW d, NEW t, Shallow(d)
  PROVE  AgreesNested(d, ReadNested(d, t)) /\ OwnsNested(ReadNested(d, t))
<1>1. AgreesNested(d, ReadNested(d, t))
  BY FlatRead DEF Shallow, AgreesNested, ReadNested, Matches, ReadAll, Nests, TypeOf
<1>2. OwnsNested(ReadNested(d, t))
  BY FlatRead DEF Shallow, ReadNested, ReadAll, HoldsAll, OwnsNested, Nests
<1>3. QED
  BY <1>1, <1>2

LEMMA NestedRead ==
  ASSUME NEW d, NEW t, Nested(d)
  PROVE  Agrees(d, Read(d, t)) /\ Owns(Read(d, t))
<1>1. Agrees(d, Read(d, t))
  BY ShallowRead DEF Nested, Agrees, Read, Matches, ReadAll, Nests, TypeOf
<1>2. Owns(Read(d, t))
  BY ShallowRead DEF Nested, Read, ReadAll, HoldsAll, Owns, Nests
<1>3. QED
  BY <1>1, <1>2
\* Reading keeps the keys and their types, and goes with taking the parameters.
LEMMA ReadKeepsKeys ==
  ASSUME NEW d, NEW t
  PROVE  /\ DOMAIN Read(d, t) = DOMAIN d
         /\ \A s \in DOMAIN d : TypeOf(Read(d, t)[s]) = TypeOf(d[s])
  BY DEF Read, ReadAll, TypeOf, Nests

LEMMA ReadOfParams ==
  ASSUME NEW c \in Code, NEW p, NEW t, Valid(c, p)
  PROVE  Params(c, Read(p, t)) = Read(Params(c, p), t)
<1>1. CASE Required[c] = <<>>
  BY <1>1 DEF Params
<1>2. CASE Required[c] # <<>>
  <2>1. \A k \in DOMAIN Required[c] : k \in DOMAIN p
    BY DEF Valid
  <2>2. Params(c, Read(p, t)) = [k \in DOMAIN Required[c] |-> Read(p, t)[k]]
    BY <1>2 DEF Params
  <2>3. Params(c, p) = [k \in DOMAIN Required[c] |-> p[k]]
    BY <1>2 DEF Params
  <2>4. \A k \in DOMAIN Required[c] : Read(p, t)[k] = Read(Params(c, p), t)[k]
    BY <2>1, <2>3 DEF Read, ReadAll
  <2>5. Read(Params(c, p), t) = [k \in DOMAIN Required[c] |-> Read(Params(c, p), t)[k]]
    BY <2>3 DEF Read, ReadAll
  <2>6. QED
    BY <2>2, <2>4, <2>5
<1>3. QED
  BY <1>1, <1>2

LEMMA ValidRead ==
  ASSUME NEW c \in Code, NEW p, NEW t, Valid(c, p)
  PROVE  Valid(c, Read(p, t))
  BY ReadKeepsKeys DEF Valid

-----------------------------------------------------------------------------
(* The message under way.                                                  *)

\* A payload has the message's keys; once it is JSON it holds no pointer.  If
\* it was prepared, it is what it was prepared with, or agrees with that.
Carries ==
  msg # None =>
    /\ msg = [code |-> msg.code, payload |-> msg.payload, json |-> msg.json,
              made |-> msg.made]
    /\ msg.code \in Code
    /\ msg.made # None => Valid(msg.code, msg.payload)
    /\ msg.json => /\ Owns(msg.payload)
                   /\ msg.made # None => Agrees(msg.made, Params(msg.code, msg.payload))
    /\ ~msg.json => /\ Nested(msg.payload)
                    /\ msg.made # None => msg.made = Params(msg.code, msg.payload)

LEMMA RequiredIsRecord ==
  ASSUME NEW c \in Code
  PROVE  Required[c] = <<>> \/ DOMAIN Required[c] # {}
<1> DEFINE Listed == {"soft_stop", "application_instance_status", "live_state",
                      "allocated", "metadata", "reverse_metadata", "custom_command"}
<1>1. CASE c = "soft_stop"
  BY <1>1 DEF Required
<1>2. CASE c = "application_instance_status"
  BY <1>2 DEF Required
<1>3. CASE c = "live_state"
  BY <1>3 DEF Required
<1>4. CASE c \in {"allocated", "metadata", "reverse_metadata", "custom_command"}
  BY <1>4 DEF Required
<1>5. CASE c \notin Listed
  BY <1>5 DEF Required
<1>6. QED
  BY <1>1, <1>2, <1>3, <1>4, <1>5

\* The root object holds values, one level of documents at most.
LEMMA RootHoldsValues ==
  ASSUME Filed, NEW c \in Code, NEW root \in Roots(c)
  PROVE  root \in ObjectOf(Value)
  BY EmptyIsBoth DEF Filed, Roots

\* What the game gives is a scalar or a document of two levels.
LEMMA GivenIsShallow ==
  ASSUME Filed, NEW c \in Code, NEW f \in Given(c), NEW k \in DOMAIN f
  PROVE  Nests(f[k]) => Shallow(f[k][2])
<1>1. f[k] \in Scalar \cup {Copy(a) : a \in Array}
  BY DEF Given
<1>2. CASE f[k] \in Scalar
  BY <1>2, FlatIsFlat DEF Flat
<1>3. CASE f[k] \in {Copy(a) : a \in Array}
  <2>1. PICK a \in Array : f[k] = Copy(a)
    BY <1>3
  <2>2. f[k][2] = doc[a] /\ a \in Handle
    BY <2>1 DEF Copy, Handle
  <2>3. \A s \in DOMAIN doc[a] : doc[a][s] \in Value
    BY <2>2, FiledIsTyped
  <2>4. \A s \in DOMAIN doc[a] : Nests(doc[a][s]) =>
          \A r \in DOMAIN doc[a][s][2] : ~Nests(doc[a][s][2][r])
    BY <2>3, FlatInside
  <2>5. QED
    BY <2>2, <2>4 DEF Shallow
<1>4. QED
  BY <1>1, <1>2, <1>3

\* What a message is prepared with is what its parameters are, valid, and of
\* three levels.
LEMMA PayloadOfPrepared ==
  ASSUME Filed, NEW c \in Code, NEW root \in Roots(c), NEW f \in Given(c)
  PROVE  /\ Nested(Filled(root, f))
         /\ Valid(c, Filled(root, f))
         /\ Params(c, Filled(root, f)) = IF f = <<>> THEN root ELSE f
<1> DEFINE p == Filled(root, f)
<1>1. root \in ObjectOf(Value)
  BY RootHoldsValues
<1>2. /\ root = [s \in DOMAIN root |-> root[s]]
      /\ \A s \in DOMAIN root : root[s] \in Value
  BY <1>1, ObjectShape
<1>3. /\ f = [k \in DOMAIN Required[c] |-> f[k]]
      /\ \A k \in DOMAIN f : TypeOf(f[k]) = Required[c][k]
  BY DEF Given
<1>4. /\ p = [k \in DOMAIN f \cup DOMAIN root |-> IF k \in DOMAIN f THEN f[k] ELSE root[k]]
  BY DEF Filled, Over
<1>5. Nested(p)
  <2>1. \A k \in DOMAIN f : Nests(f[k]) => Shallow(f[k][2])
    BY GivenIsShallow
  <2>2. \A k \in DOMAIN root : Nests(root[k]) => Shallow(root[k][2])
    BY <1>2, FlatInside DEF Shallow
  <2>3. QED
    BY <1>4, <2>1, <2>2 DEF Nested
<1>6. Valid(c, p)
  BY <1>3, <1>4 DEF Valid
<1>7. CASE Required[c] = <<>>
  <2>1. DOMAIN Required[c] = {}
    BY <1>7, EmptyIsBoth
  <2>2. f \in [{} -> {}]
    BY <2>1, <1>3
  <2>3. f = <<>> /\ DOMAIN f = {}
    BY <2>2, <1>3, <2>1
  <2>4. p = root
    BY <1>2, <1>4, <2>3
  <2>5. QED
    BY <1>5, <1>6, <1>7, <2>3, <2>4 DEF Params
<1>8. CASE Required[c] # <<>>
  <2>1. DOMAIN f # {}
    BY <1>3, <1>8, RequiredIsRecord
  <2>2. f # <<>>
    BY <2>1, EmptyIsBoth
  <2>3. Params(c, p) = [k \in DOMAIN Required[c] |-> p[k]]
    BY <1>8 DEF Params
  <2>4. \A k \in DOMAIN Required[c] : p[k] = f[k]
    BY <1>3, <1>4
  <2>5. Params(c, p) = f
    BY <1>3, <2>3, <2>4
  <2>6. QED
    BY <1>5, <1>6, <2>2, <2>5
<1>9. QED
  BY <1>7, <1>8
-----------------------------------------------------------------------------
(* The invariant.                                                          *)

IInv == Filed /\ Carries /\ ArrivesAsPrepared

LEMMA Initially == Init => IInv
  BY EmptyIsBoth DEF Init, IInv, Filed, Carries, ArrivesAsPrepared, Handle

LEMMA PrepareKeeps ==
  ASSUME IInv, PrepareAny
  PROVE  IInv'
<1>1. PICK c \in Code : \E root \in Roots(c), f \in Given(c) : Prepare(c, root, f)
  BY DEF PrepareAny
<1>2. PICK root \in Roots(c), f \in Given(c) : Prepare(c, root, f)
  BY <1>1
<1>3. UNCHANGED doc /\ outcome' = None
  BY <1>2 DEF Prepare
<1>4. Filed'
  BY <1>3 DEF IInv, Filed
<1>5. ArrivesAsPrepared'
  BY <1>3 DEF ArrivesAsPrepared
<1>6. CASE msg' = msg
  BY <1>4, <1>5, <1>6 DEF IInv, Carries
<1>7. CASE msg' # msg
  <2> DEFINE made == IF f = <<>> THEN root ELSE f
  <2>1. msg' = [code |-> c, payload |-> Filled(root, f), json |-> FALSE, made |-> made]
    BY <1>2, <1>7 DEF Prepare
  <2>2. /\ msg'.code = c /\ msg'.payload = Filled(root, f)
        /\ msg'.json = FALSE /\ msg'.made = made
    BY <2>1
  <2>3. /\ Nested(Filled(root, f)) /\ Valid(c, Filled(root, f))
        /\ Params(c, Filled(root, f)) = made
    BY PayloadOfPrepared DEF IInv
  <2>4. Carries'
    <3> HIDE DEF made
    <3>1. QED
      BY <2>1, <2>2, <2>3 DEF Carries
  <2>5. QED
    BY <1>4, <1>5, <2>4 DEF IInv
<1>8. QED
  BY <1>6, <1>7

LEMMA SendKeeps ==
  ASSUME IInv, Send
  PROVE  IInv'
<1>1. PICK t \in Text :
        msg' = [code |-> msg.code, payload |-> Read(msg.payload, t), json |-> TRUE,
                made |-> msg.made]
  BY DEF Send
<1>2. msg # None /\ ~msg.json /\ UNCHANGED <<doc, outcome>>
  BY DEF Send
<1> DEFINE c == msg.code
           p == msg.payload
           r == Read(p, t)
<1>3. /\ c \in Code /\ Nested(p)
      /\ msg.made # None => Valid(c, p) /\ msg.made = Params(c, p)
  BY <1>2 DEF IInv, Carries
<1>4. msg' = [code |-> c, payload |-> r, json |-> TRUE, made |-> msg.made]
  BY <1>1
<1>5. msg'.code = c /\ msg'.payload = r /\ msg'.json = TRUE /\ msg'.made = msg.made
  <2> HIDE DEF c, p, r
  <2>1. QED
    BY <1>4
<1>6. Owns(r)
  BY <1>3, NestedRead
<1>7. ASSUME msg.made # None
      PROVE  Valid(c, r) /\ Agrees(msg.made, Params(c, r))
  <2>1. c \in Code /\ Valid(c, p) /\ msg.made = Params(c, p)
    BY <1>3, <1>7
  <2>2. Valid(c, r)
    BY <2>1, ValidRead
  <2>3. Nested(Params(c, p))
    BY <1>3, <2>1 DEF Params, Nested, Valid
  <2>4. Params(c, r) = Read(Params(c, p), t)
    BY <2>1, ReadOfParams
  <2>5. QED
    BY <2>1, <2>2, <2>3, <2>4, NestedRead
<1>8. Carries'
  <2> HIDE DEF c, p, r
  <2>1. QED
    BY <1>3, <1>4, <1>5, <1>6, <1>7 DEF Carries
<1>9. Filed' /\ ArrivesAsPrepared'
  BY <1>2 DEF IInv, Filed, ArrivesAsPrepared
<1>10. QED
  BY <1>8, <1>9 DEF IInv

LEMMA AlienSendsKeeps ==
  ASSUME IInv, AlienSends
  PROVE  IInv'
<1>1. PICK c \in Code, p \in Alien :
        msg' = [code |-> c, payload |-> p, json |-> TRUE, made |-> None]
  BY DEF AlienSends
<1>2. UNCHANGED doc /\ outcome' = None
  BY DEF AlienSends
<1>3. msg'.code = c /\ msg'.payload = p /\ msg'.json = TRUE /\ msg'.made = None
  BY <1>1
<1>4. Carries'
  BY <1>1, <1>3, AlienAssumption DEF Carries
<1>5. QED
  BY <1>2, <1>4 DEF IInv, Filed, ArrivesAsPrepared

LEMMA ReceiveKeeps ==
  ASSUME IInv, Receive
  PROVE  IInv'
<1> DEFINE fine == Valid(msg.code, msg.payload)
           with == IF fine THEN Params(msg.code, msg.payload) ELSE None
<1>1. /\ msg # None /\ msg.json
      /\ outcome' = [made |-> msg.made, accepted |-> fine, params |-> with]
      /\ msg' = None
      /\ UNCHANGED doc
  BY DEF Receive
<1>2. outcome'.made = msg.made /\ outcome'.accepted = fine /\ outcome'.params = with
  <2> HIDE DEF fine, with
  <2>1. QED
    BY <1>1
<1>3. msg.made # None => fine /\ Agrees(msg.made, Params(msg.code, msg.payload))
  BY <1>1 DEF IInv, Carries
<1>4. ArrivesAsPrepared'
  BY <1>2, <1>3 DEF ArrivesAsPrepared
<1>5. QED
  BY <1>1, <1>4 DEF IInv, Filed, Carries

LEMMA Invariance == Spec => []IInv
<1>1. IInv /\ [Next]_vars => IInv'
  <2> SUFFICES ASSUME IInv, [Next]_vars
               PROVE  IInv'
    OBVIOUS
  <2>1. CASE Fill
    <3>1. UNCHANGED msg /\ outcome' = None
      BY <2>1 DEF Fill, SetInObject, RemoveKey, PushBack, SetInArray, PopBack, Clear, Val,
                  Becomes
    <3>2. Filed'
      BY <2>1, FillKeepsFiled DEF IInv
    <3>3. QED
      BY <3>1, <3>2 DEF IInv, Carries, ArrivesAsPrepared
  <2>2. CASE PrepareAny
    BY <2>2, PrepareKeeps
  <2>3. CASE Send
    BY <2>3, SendKeeps
  <2>4. CASE AlienSends
    BY <2>4, AlienSendsKeeps
  <2>5. CASE Receive
    BY <2>5, ReceiveKeeps
  <2>6. CASE UNCHANGED vars
    BY <2>6 DEF vars, IInv, Filed, Carries, ArrivesAsPrepared
  <2>7. QED
    BY <2>1, <2>2, <2>3, <2>4, <2>5, <2>6 DEF Next
<1>2. QED
  BY <1>1, Initially, PTL DEF Spec

-----------------------------------------------------------------------------
(***************************************************************************)
(* Every document is one (object.cpp, array.cpp): objects have keys, arrays*)
(* positions, whatever is set, copied or removed; and what has been JSON   *)
(* (message.cpp 23-37) holds no pointer to a caller's text.                *)
(***************************************************************************)
THEOREM TypeCorrect == Spec => []TypeOK
<1>1. IInv => TypeOK
  BY FiledIsTyped, ValueIsValue DEF IInv, Carries, TypeOK
<1>2. QED
  BY <1>1, Invariance, PTL

(***************************************************************************)
(* What a message was prepared with is what the other end's callback gets  *)
(* (messages.cpp, message.cpp 386-565), and it is never refused.           *)
(***************************************************************************)
THEOREM PreparedArrives == Spec => []ArrivesAsPrepared
<1>1. IInv => ArrivesAsPrepared
  BY DEF IInv
<1>2. QED
  BY <1>1, Invariance, PTL
=============================================================================
