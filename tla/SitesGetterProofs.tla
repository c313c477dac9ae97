--------------------------- MODULE SitesGetterProofs ---------------------------
(***************************************************************************)
(* SitesGetter for every set of sites and every set of answers: its types, *)
(* that it waits exactly while an answer is to come, and that the addresses*)
(* a game pings are, place by place, those of the sites it has read.       *)
(*                                                                         *)
(* The argument rests on one fact: an answer can come only to a getter that*)
(* waits, which has no sites yet, and with sites it is ready for ever.     *)
(***************************************************************************)
EXTENDS SitesGetter, SequenceTheorems, TLAPS

\* Nothing was asked before the getter was created.
Unborn == life = "off" => unanswered = 0 /\ status # "waiting"

\* A list a game filled has the addresses of the sites the getter has now.
ListFits ==
  list # <<>> =>
    /\ sites # <<>>
    /\ DOMAIN list = DOMAIN sites
    /\ \A i \in DOMAIN sites : list[i] = sites[i][family][1]

Waits == Unborn /\ WaitsForAnswer
Inv == TypeOK /\ Waits

\* Without an object nobody reads and nobody answers: in what follows the
\* getter keeps its sites once it has some.
SitesAreReady == life = "off" => sites = <<>>

Places == PingerHasItsSite /\ ListFits /\ SitesAreReady

-----------------------------------------------------------------------------
(***************************************************************************)
(* ipv4_list() and ipv6_list() give strings, none when there are no sites, *)
(* and otherwise none or one for each site.                                *)
(***************************************************************************)
LEMMA FirstAddressesFit ==
  ASSUME sites \in Seq(Site), NEW f \in Family
  PROVE  /\ FirstAddresses(f) \in Addresses
         /\ FirstAddresses(f) # <<>> =>
              /\ sites # <<>>
              /\ DOMAIN FirstAddresses(f) = DOMAIN sites
              /\ \A i \in DOMAIN sites : FirstAddresses(f)[i] = sites[i][f][1]
<1>1. CASE ~Complete(f)
  <2>1. FirstAddresses(f) = <<>>
    BY <1>1 DEF FirstAddresses
  <2> QED  BY <2>1 DEF Addresses
<1>2. CASE Complete(f)
  <2> DEFINE g == [i \in 1 .. Len(sites) |-> sites[i][f][1]]
  <2>1. FirstAddresses(f) = g
    BY <1>2 DEF FirstAddresses
  <2>2. \A i \in 1 .. Len(sites) : g[i] \in STRING
    <3> TAKE i \in 1 .. Len(sites)
    <3>1. sites[i] \in Site
      OBVIOUS
    <3>2. sites[i][f] \in Seq(STRING)
      BY <3>1, SiteType
    <3>3. sites[i][f] # <<>>
      BY <1>2 DEF Complete
    <3>4. sites[i][f][1] \in STRING
      BY <3>2, <3>3
    <3> QED  BY <3>4
  <2>3. g \in Seq(STRING)
    BY <2>2
  <2>4. g # <<>> => sites # <<>>
    <3> SUFFICES ASSUME sites = <<>> PROVE g = <<>>
      OBVIOUS
    <3>1. Len(g) = 0
      OBVIOUS
    <3> QED  BY <2>3, <3>1, EmptySeq
  <2> QED  BY <2>1, <2>3, <2>4 DEF Addresses
<1> QED  BY <1>1, <1>2

-----------------------------------------------------------------------------
(* The types and the waiting.                                              *)

LEMMA InitInv == Init => Inv
<1> SUFFICES ASSUME Init PROVE Inv
  OBVIOUS
<1>1. <<>> \in Seq(Site) /\ <<>> \in Addresses
  BY DEF Addresses
<1>2. TypeOK
  <2>1. sites \in Seq(Site) /\ known \in Seq(Site) /\ list \in Addresses
    BY <1>1, Zenon DEF Init
  <2>2. pingers \in [family : Family, ips : Addresses] \cup {NoPingers}
    BY DEF Init
  <2>3. /\ life \in {"off", "on", "gone", "crashed"}
        /\ status \in {"uninitialized", "initialized", "waiting", "error", "ready"}
        /\ at \in {"idle", "calling"}
        /\ unanswered \in 0 .. 1 /\ family \in Family
    BY DEF Init, Family
  <2>4. hooked \in BOOLEAN
    BY Zenon DEF Init
  <2> QED  BY <2>1, <2>2, <2>3, <2>4 DEF TypeOK
<1>3. Waits
  BY DEF Init, Waits, Unborn, WaitsForAnswer
<1> QED  BY <1>2, <1>3 DEF Inv

\* An answer takes the only request there is.
LEMMA AnswerPreservesInv ==
  ASSUME Inv, Answer
  PROVE  Inv'
<1> USE DEF Inv, Waits, Unborn, WaitsForAnswer, TypeOK, Answered, getter, game
<1>1. CASE AnswerFailed
  BY <1>1 DEF AnswerFailed
<1>2. ASSUME NEW p \in Payload, AnswerParsed(p)
      PROVE  Inv'
  <2>1. Stored(p) \in Seq(Site)
    <3>1. CASE ~Valid(p)
      BY <3>1 DEF Stored
    <3>2. CASE Valid(p)
      <4>1. p \in Seq(Site \cup {Bad})
        BY PayloadType
      <4>2. \A i \in 1 .. Len(p) : p[i] \in Site
        BY <3>2, <4>1 DEF Valid
      <4>3. p \in Seq(Site)
        BY <4>1, <4>2
      <4> QED  BY <3>2, <4>3 DEF Stored
    <3> QED  BY <3>1, <3>2
  <2> QED  BY <1>2, <2>1 DEF AnswerParsed
<1>3. CASE AnswerTooLate
  BY <1>3 DEF AnswerTooLate
<1> QED  BY <1>1, <1>2, <1>3 DEF Answer

LEMMA NextPreservesInv == Inv /\ [Next]_vars => Inv'
<1> SUFFICES ASSUME Inv, [Next]_vars PROVE Inv'
  OBVIOUS
<1> USE DEF Inv, Waits, Unborn, WaitsForAnswer, TypeOK, getter, game
<1>1. CASE Create  BY <1>1 DEF Create
<1>2. CASE Shutdown  BY <1>2 DEF Shutdown, Free
<1>3. CASE Destroy  BY <1>3 DEF Destroy, Free
<1>4. CASE Ask  BY <1>4 DEF Ask, Free, MayAsk
<1>5. CASE AskUnhooked  BY <1>5 DEF AskUnhooked, Free, MayAsk
<1>6. CASE Return  BY <1>6 DEF Return
<1>7. CASE Answer  BY <1>7, AnswerPreservesInv
<1>8. CASE ReadSites  BY <1>8 DEF ReadSites, Free
<1>9. ASSUME NEW f \in Family, FillList(f) PROVE Inv'
  BY <1>9, FirstAddressesFit DEF FillList, Free
<1>10. CASE CreatePingers  BY <1>10 DEF CreatePingers
<1>11. CASE UNCHANGED vars  BY <1>11 DEF vars
<1> QED
  BY <1>1, <1>2, <1>3, <1>4, <1>5, <1>6, <1>7, <1>8, <1>9, <1>10, <1>11 DEF Next

LEMMA InvHolds == Spec => []Inv
BY InitInv, NextPreservesInv, PTL DEF Spec

(***************************************************************************)
(* Every field of the getter and of the game keeps its type, and there is  *)
(* never more than one request under way, whatever sites and answers.      *)
(***************************************************************************)
THEOREM TypeCorrect == Spec => []TypeOK
<1>1. Inv => TypeOK
  BY DEF Inv
<1> QED  BY <1>1, InvHolds, PTL

(***************************************************************************)
(* A getter waits exactly while the hook owes it an answer: update() puts  *)
(* it to waiting before it calls the hook (sites_getter.cpp 57).           *)
(***************************************************************************)
THEOREM WaitsExactly == Spec => []WaitsForAnswer
<1>1. Inv => WaitsForAnswer
  BY DEF Inv, Waits
<1> QED  BY <1>1, InvHolds, PTL

-----------------------------------------------------------------------------
(* The sites and their pingers.                                            *)

LEMMA InitPlaces == Init => Places
BY DEF Init, Places, PingerHasItsSite, ListFits, SitesAreReady

\* An answer finds a getter without sites, and so nobody who has read any.
LEMMA AnswerPreservesPlaces ==
  ASSUME Inv, Places, Answer
  PROVE  Places'
<1> USE DEF Inv, Waits, Unborn, WaitsForAnswer, TypeOK, Answered, getter, game,
            Places, PingerHasItsSite, ListFits, SitesAreReady
<1>1. life = "on" => status = "waiting" /\ sites = <<>>
  BY DEF Answer, AnswerFailed, AnswerParsed, AnswerTooLate
<1>2. CASE AnswerFailed
  BY <1>1, <1>2 DEF AnswerFailed
<1>3. ASSUME NEW p \in Payload, AnswerParsed(p) PROVE Places'
  <2>1. sites = <<>> /\ known = <<>> /\ list = <<>>
    BY <1>1, <1>3 DEF AnswerParsed
  <2>2. pingers # NoPingers => pingers.ips = <<>>
    <3> SUFFICES ASSUME pingers # NoPingers, pingers.ips # <<>> PROVE FALSE
      OBVIOUS
    <3>1. pingers.ips \in Seq(STRING) /\ DOMAIN pingers.ips = {}
      BY <2>1 DEF Addresses
    <3> QED  BY <3>1, EmptySeq
  <2>3. sites' # <<>> => status' = "ready"
    BY <1>3, <2>1 DEF AnswerParsed, Stored
  <2> QED  BY <1>3, <2>1, <2>2, <2>3 DEF AnswerParsed
<1>4. CASE AnswerTooLate
  BY <1>4 DEF AnswerTooLate
<1> QED  BY <1>2, <1>3, <1>4 DEF Answer

LEMMA NextPreservesPlaces == Inv /\ Places /\ [Next]_vars => Places'
<1> SUFFICES ASSUME Inv, Places, [Next]_vars PROVE Places'
  OBVIOUS
<1> USE DEF Inv, TypeOK, getter, game, Places, PingerHasItsSite, ListFits, SitesAreReady
<1>1. CASE Create  BY <1>1 DEF Create
<1>2. CASE Shutdown  BY <1>2 DEF Shutdown, Free
<1>3. CASE Destroy  BY <1>3 DEF Destroy, Free
<1>4. CASE Ask  BY <1>4 DEF Ask, Free, MayAsk
<1>5. CASE AskUnhooked  BY <1>5 DEF AskUnhooked, Free, MayAsk
<1>6. CASE Return  BY <1>6 DEF Return
<1>7. CASE Answer  BY <1>7, AnswerPreservesPlaces
<1>8. CASE ReadSites  BY <1>8 DEF ReadSites, Free
<1>9. ASSUME NEW f \in Family, FillList(f) PROVE Places'
  BY <1>9, FirstAddressesFit DEF FillList, Free
<1>10. CASE CreatePingers
  BY <1>10 DEF CreatePingers
<1>11. CASE UNCHANGED vars  BY <1>11 DEF vars
<1> QED
  BY <1>1, <1>2, <1>3, <1>4, <1>5, <1>6, <1>7, <1>8, <1>9, <1>10, <1>11 DEF Next

(***************************************************************************)
(* What a game has read of the sites stays true, and its pingers' addresses*)
(* are those of the sites at the same places, or there are none.           *)
(***************************************************************************)
THEOREM PlacesKept == Spec => []PingerHasItsSite
<1>1. Places => PingerHasItsSite
  BY DEF Places
<1> QED  BY <1>1, InvHolds, InitPlaces, NextPreservesPlaces, PTL DEF Spec

=============================================================================
