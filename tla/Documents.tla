------------------------------ MODULE Documents ------------------------------
(***************************************************************************)
(* What messages are made of (one/arcus/object.cpp, array.cpp, message.cpp,*)
(* internal/messages.cpp and their part of c_api.cpp): a game fills objects*)
(* and arrays through handles, prepares a message of them, which is sent as*)
(* JSON, and the other end checks it and calls back with what it holds.    *)
(*                                                                         *)
(* A document is a function of its keys or positions to values, each a     *)
(* tuple that starts with its type.  A string that replaces another in an  *)
(* object or array is not copied: the document points at the caller's      *)
(* text, which is gone when the call returns.  Such a value is <<"lent",   *)
(* the text it was set to>>, and what is read of it may be any text.       *)
(***************************************************************************)
EXTENDS Naturals, Sequences, FiniteSets

CONSTANTS
  Object, Array,   (* the handles of a game: OneObjectPtr and OneArrayPtr   *)
  Key,             (* the keys a game uses                                  *)
  Text, Number, Flag,   (* strings, integers and truth values               *)
  Code,            (* the opcodes messages are prepared with                *)
  Alien,           (* payloads that no prepare function makes               *)
  MaxSize,         (* bound: values held by all handles together            *)
  None             (* no message, no call                                   *)

ASSUME HandlesAssumption == Object \cap Array = {}

Handle == Object \cup Array

VARIABLES
  doc,      (* [Handle -> document]                                         *)
  msg,      (* the message under way: code, payload, whether it is JSON, and*)
            (* what it was made of, or None if an alien made it             *)
  outcome   (* of a message, when it has arrived: made, accepted, params;   *)
            (* forgotten with the next call                                 *)

vars == <<doc, msg, outcome>>

-----------------------------------------------------------------------------
(* Values.                                                                 *)

TypeOf(v) == IF v[1] = "lent" THEN "string" ELSE v[1]

Nests(v) == v[1] \in {"array", "object"}

Scalar == ({"int"} \X Number) \cup ({"string"} \X Text) \cup ({"bool"} \X Flag)

\* A document in an object or array is copied, with the pointers it holds.
Copy(h) == <<IF h \in Array THEN "array" ELSE "object", doc[h]>>

\* The values a game can set in a document: bound on nesting, of two levels.
Settable(h) ==
  Scalar \cup {Copy(g) : g \in {g \in Handle \ {h} :
                                  \A s \in DOMAIN doc[g] : ~Nests(doc[g][s])}}

SizeOf(d) ==
  LET nested == {s \in DOMAIN d : Nests(d[s])}
      count[S \in SUBSET nested] ==
        IF S = {} THEN 0
        ELSE LET s == CHOOSE s \in S : TRUE
             IN  Cardinality(DOMAIN d[s][2]) + count[S \ {s}]
  IN  Cardinality(DOMAIN d) + count[nested]

Size(docs) ==
  LET sum[S \in SUBSET Handle] ==
        IF S = {} THEN 0
        ELSE LET h == CHOOSE h \in S : TRUE IN SizeOf(docs[h]) + sum[S \ {h}]
  IN  sum[Handle]

-----------------------------------------------------------------------------
Init ==
  /\ doc = [h \in Handle |-> <<>>]
  /\ msg = None
  /\ outcome = None

-----------------------------------------------------------------------------
(* Objects and arrays.                                                     *)

\* Bound: no document changes while a message is under way, which holds
\* copies, and pointers whose text is any, whenever it is read.
Becomes(h, d) ==
  /\ msg = None
  /\ doc' = [doc EXCEPT ![h] = d]
  /\ Size(doc') <= MaxSize
  /\ outcome' = None
  /\ UNCHANGED msg

\* elem.Set(val.c_str()) keeps the pointer, and other values are copied.
InPlace(v) == IF v[1] = "string" THEN <<"lent", v[2]>> ELSE v

\* set_val_*() on a slot there is: a value of another type is an error.
Replaced(d, s, v) ==
  IF TypeOf(d[s]) = TypeOf(v) THEN [d EXCEPT ![s] = InPlace(v)] ELSE d

\* What f holds, and what g holds under other keys.
Over(f, g) ==
  [k \in DOMAIN f \cup DOMAIN g |-> IF k \in DOMAIN f THEN f[k] ELSE g[k]]

\* Object::set_val_*(): a key that is not there is added, its text copied.
SetInObject(o, k, v) ==
  Becomes(o, IF k \in DOMAIN doc[o] THEN Replaced(doc[o], k, v)
               ELSE Over(doc[o], [j \in {k} |-> v]))

\* Array::set_val_*(): a position that is not there is an error.
SetInArray(a, i, v) == i \in DOMAIN doc[a] /\ Becomes(a, Replaced(doc[a], i, v))

PushBack(a, v) == Becomes(a, Append(doc[a], v))

\* pop_back() has no check: a caller pops what is there.
PopBack(a) == doc[a] # <<>> /\ Becomes(a, SubSeq(doc[a], 1, Len(doc[a]) - 1))

RemoveKey(o, k) ==
  /\ k \in DOMAIN doc[o]
  /\ Becomes(o, [j \in DOMAIN doc[o] \ {k} |-> doc[o][j]])

Clear(h) == Becomes(h, <<>>)

\* val_object() and val_array() copy what is in h to the handle g.
Val(h, s, g) ==
  /\ s \in DOMAIN doc[h]
  /\ doc[h][s][1] = Copy(g)[1]
  /\ Becomes(g, doc[h][s][2])

-----------------------------------------------------------------------------
(* Messages.                                                               *)

\* The keys a payload must have, with their types; of the information       *)
\* messages it is the whole payload that counts.
Required ==
  [c \in Code |->
     CASE c = "soft_stop" -> [timeout |-> "int"]
       [] c = "application_instance_status" -> [status |-> "int"]
       [] c = "live_state" -> [players |-> "int", name |-> "string"]
       [] c \in {"allocated", "metadata", "reverse_metadata", "custom_command"}
            -> [data |-> "array"]
       [] OTHER -> <<>>]

\* The game's values for the required keys of a message.
Given(c) ==
  {f \in [DOMAIN Required[c] -> Scalar \cup {Copy(a) : a \in Array}] :
     \A k \in DOMAIN f : TypeOf(f[k]) = Required[c][k]}

\* The objects a message starts from: additional data, or an information.
Roots(c) ==
  CASE c = "live_state" -> {<<>>} \cup {doc[o] : o \in Object}
    [] c \in {"host_information", "application_instance_information"}
         -> {doc[o] : o \in Object}
    [] OTHER -> {<<>>}

\* A key of the root object that a payload's set_val_*() finds ill-typed.
Clash(root, fields) ==
  \E k \in DOMAIN root \cap DOMAIN fields : TypeOf(root[k]) # TypeOf(fields[k])

\* Mutant: the additional data is set last.
FilledFirst(root, fields) == Over(root, fields)

\* Payload::set_val_*() copies text, and replaces what the root object has.
Filled(root, fields) == Over(fields, root)

\* messages::prepare_*(): on an error the message stays what it was.
Prepare(c, root, fields) ==
  /\ msg' = IF Clash(root, fields) THEN msg
            ELSE [code |-> c, payload |-> Filled(root, fields), json |-> FALSE,
                  made |-> IF fields = <<>> THEN root ELSE fields]
  /\ outcome' = None
  /\ UNCHANGED doc

\* Mutant: the pointer is sent.
AsItIs(d, t) == d

\* What is found at the pointers a document holds: t.  A payload holds
\* documents, which may hold documents, which hold none (see Settable).
ReadAll(d, t, Inside(_, _)) ==
  [s \in DOMAIN d |->
     IF d[s][1] = "lent" THEN <<"string", t>>
     ELSE IF Nests(d[s]) THEN <<d[s][1], Inside(d[s][2], t)>>
     ELSE d[s]]
ReadFlat(d, t) == ReadAll(d, t, AsItIs)
ReadNested(d, t) == ReadAll(d, t, ReadFlat)
Read(d, t) == ReadAll(d, t, ReadNested)

\* Payload::to_json() and from_json().
Send ==
  /\ msg # None /\ ~msg.json
  /\ \E t \in Text :
       msg' = [code |-> msg.code, payload |-> Read(msg.payload, t), json |-> TRUE,
               made |-> msg.made]
  /\ UNCHANGED <<doc, outcome>>

\* The agent is another program, and may send what this library would not.
AlienSends ==
  /\ msg = None
  /\ \E c \in Code, p \in Alien :
       msg' = [code |-> c, payload |-> p, json |-> TRUE, made |-> None]
  /\ outcome' = None
  /\ UNCHANGED doc

\* messages::validation: the required keys are there, with their types.
Valid(c, p) ==
  \A k \in DOMAIN Required[c] : k \in DOMAIN p /\ TypeOf(p[k]) = Required[c][k]

\* The parameters that validation reads.
Params(c, p) == IF Required[c] = <<>> THEN p ELSE [k \in DOMAIN Required[c] |-> p[k]]

\* messages::invocation: the callback is called with them, or not at all.
Receive ==
  /\ msg # None /\ msg.json
  /\ outcome' = [made |-> msg.made, accepted |-> Valid(msg.code, msg.payload),
                 params |-> IF Valid(msg.code, msg.payload)
                            THEN Params(msg.code, msg.payload) ELSE None]
  /\ msg' = None
  /\ UNCHANGED doc

-----------------------------------------------------------------------------
Fill ==
  \/ \E o \in Object, k \in Key : \E v \in Settable(o) : SetInObject(o, k, v)
  \/ \E o \in Object, k \in Key : RemoveKey(o, k)
  \/ \E a \in Array : \E v \in Settable(a) : PushBack(a, v)
  \/ \E a \in Array, i \in 1 .. MaxSize : \E v \in Settable(a) : SetInArray(a, i, v)
  \/ \E a \in Array : PopBack(a)
  \/ \E h \in Handle : Clear(h)
  \/ \E h \in Handle : \E g \in Handle \ {h}, s \in DOMAIN doc[h] : Val(h, s, g)

PrepareAny == \E c \in Code : \E root \in Roots(c), f \in Given(c) : Prepare(c, root, f)

Next == Fill \/ PrepareAny \/ Send \/ AlienSends \/ Receive

Spec == Init /\ [][Next]_vars

-----------------------------------------------------------------------------
(* Properties.                                                             *)

\* What a document can hold: at most one level of documents, see Settable.
Flat == Scalar \cup ({"lent"} \X Text)
IsArray(d) == DOMAIN d = 1 .. Len(d)
IsObject(d) == DOMAIN d \subseteq Key
IsValue(v) ==
  \/ v \in Flat
  \/ /\ \/ v[1] = "array" /\ IsArray(v[2])
        \/ v[1] = "object" /\ IsObject(v[2])
     /\ \A s \in DOMAIN v[2] : v[2][s] \in Flat

\* A document of three levels at most that holds no pointer.
HoldsAll(d, Inside(_)) ==
  \A s \in DOMAIN d : d[s][1] # "lent" /\ (Nests(d[s]) => Inside(d[s][2]))
OwnsFlat(d) == \A s \in DOMAIN d : d[s][1] # "lent" /\ ~Nests(d[s])
OwnsNested(d) == HoldsAll(d, OwnsFlat)
Owns(d) == HoldsAll(d, OwnsNested)

\* What an agent sends is JSON.
ASSUME AlienAssumption == \A p \in Alien : Owns(p)

\* Every document is one: objects have keys, arrays positions, and what has
\* been JSON holds no pointer.
TypeOK ==
  /\ \A o \in Object : IsObject(doc[o])
  /\ \A a \in Array : IsArray(doc[a])
  /\ \A h \in Handle : \A s \in DOMAIN doc[h] : IsValue(doc[h][s])
  /\ msg # None => msg.code \in Code /\ (msg.json => Owns(msg.payload))

\* b is a, but for strings that were replaced in place, of which any is there.
Matches(a, b, Inside(_, _)) ==
  /\ DOMAIN a = DOMAIN b
  /\ \A s \in DOMAIN a :
       /\ TypeOf(a[s]) = TypeOf(b[s])
       /\ IF Nests(a[s]) THEN Inside(a[s][2], b[s][2])
          ELSE a[s][1] = "lent" \/ a[s][2] = b[s][2]
Same(a, b) == a = b
AgreesFlat(a, b) == Matches(a, b, Same)
AgreesNested(a, b) == Matches(a, b, AgreesFlat)
Agrees(a, b) == Matches(a, b, AgreesNested)

(***************************************************************************)
(* What a message was prepared with is what the other end's callback gets, *)
(* whatever the game did with its handles before, whatever the message was *)
(* before, and whatever the additional data of a live state holds; no      *)
(* prepared message is refused.  Strings replaced in place are the         *)
(* exception: they arrive as any text.                                     *)
(***************************************************************************)
ArrivesAsPrepared ==
  (outcome # None /\ outcome.made # None) =>
    outcome.accepted /\ Agrees(outcome.made, outcome.params)

=============================================================================
