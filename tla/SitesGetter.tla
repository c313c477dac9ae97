----------------------------- MODULE SitesGetter -----------------------------
(***************************************************************************)
(* How a game learns which sites there are to ping (one/ping/sites_getter  *)
(* .cpp, internal/sites_endpoint.cpp, ip_list.cpp): the getter asks the    *)
(* game's own HTTP hook for the list, the hook answers at once, inside the *)
(* request, or later from a thread of its own, and the game makes a list   *)
(* of addresses of it and pingers of that list, in the order of the sites  *)
(* (one/fake/ping/main.cpp).                                               *)
(*                                                                         *)
(* Every call holds the getter's recursive mutex, the request to the hook  *)
(* included (`at'), but an answer that failed takes no mutex.              *)
(***************************************************************************)
EXTENDS Naturals, Sequences

CONSTANTS
  Site,        (* [name, ipv4, ipv6], the last two sequences of addresses   *)
  Bad,         (* an element of a payload that is not a valid site          *)
  Payload,     (* the answers that are JSON arrays: of sites and of Bad     *)
  NoPingers    (* no pingers yet                                            *)

Family == {"ipv4", "ipv6"}

ASSUME PayloadType == Payload \subseteq Seq(Site \cup {Bad})
ASSUME BadIsNoSite == Bad \notin Site
ASSUME SiteType == \A s \in Site : \A f \in Family : s[f] \in Seq(STRING)

VARIABLES
  life,        (* "off", "on", "gone", or "crashed" by an answer too late   *)
  status,      (* _status                                                   *)
  hooked,      (* _callbacks._http_get is set                               *)
  sites,       (* _sites                                                    *)
  at,          (* "calling" while update() is inside the hook               *)
  unanswered,  (* requests the hook has still to answer                     *)
  known,       (* the sites as the game has read them one by one            *)
  family, list,   (* the game's IpList, and the addresses it was filled with*)
  pingers      (* the addresses of its Pingers                              *)

getter == <<status, hooked, sites, at, unanswered>>
game   == <<known, family, list, pingers>>
vars   == <<life, getter, game>>

Init ==
  /\ life = "off"
  /\ status = "uninitialized" /\ hooked = FALSE
  /\ sites = <<>>
  /\ at = "idle"
  /\ unanswered = 0
  /\ known = <<>>
  /\ family = "ipv4" /\ list = <<>>
  /\ pingers = NoPingers

Free == life = "on" /\ at = "idle"

-----------------------------------------------------------------------------
(* Life cycle.                                                             *)

\* sites_getter_create(): the hook is set, and init() finds it.
Create ==
  /\ life = "off"
  /\ life' = "on"
  /\ status' = "initialized" /\ hooked' = TRUE
  /\ UNCHANGED <<sites, at, unanswered, game>>

\* SitesGetter::shutdown() forgets the hook, and neither status nor sites.
Shutdown ==
  /\ Free
  /\ hooked
  /\ hooked' = FALSE
  /\ UNCHANGED <<life, status, sites, at, unanswered, game>>

\* sites_getter_destroy(), which the game calls with no other call under way.
Destroy ==
  /\ Free
  /\ life' = "gone"
  /\ UNCHANGED <<getter, game>>

-----------------------------------------------------------------------------
(* update().                                                               *)

\* Mutant: a getter that waits asks again, too.
MayAskAlways == status \in {"initialized", "waiting", "error"}

\* The statuses in which update() asks for the sites.
MayAsk == status \in {"initialized", "error"}

(***************************************************************************)
(* get_sites_information(): the getter waits, and then calls the hook,     *)
(* which has the request from now on.                                      *)
(***************************************************************************)
Ask ==
  /\ Free
  /\ MayAsk /\ hooked
  /\ status' = "waiting"
  /\ unanswered' = unanswered + 1
  /\ at' = "calling"
  /\ UNCHANGED <<life, hooked, sites, game>>

\* Without a hook the request is an error, which update() returns.
AskUnhooked ==
  /\ Free
  /\ MayAsk /\ ~hooked
  /\ status' = "error"
  /\ UNCHANGED <<life, hooked, sites, at, unanswered, game>>

\* Mutant: the getter waits only once the hook has returned.
ReturnWaiting ==
  /\ at = "calling"
  /\ at' = "idle"
  /\ status' = "waiting"
  /\ UNCHANGED <<life, hooked, sites, unanswered, game>>

\* The hook returns, and update() with it.
Return ==
  /\ at = "calling"
  /\ at' = "idle"
  /\ UNCHANGED <<life, status, hooked, sites, unanswered, game>>

-----------------------------------------------------------------------------
(* parsing_callback().                                                     *)

Answered ==
  /\ unanswered > 0
  /\ unanswered' = unanswered - 1

\* The request failed, or there is no text: no mutex is taken.
AnswerFailed ==
  /\ life = "on"
  /\ Answered
  /\ status' = "error"
  /\ UNCHANGED <<life, hooked, sites, at, game>>

\* is_payload_valid() looks at all of a payload before any site is stored.
Valid(p) == \A i \in DOMAIN p : p[i] # Bad

\* Mutant: each site is looked at when its turn to be stored has come.
StoredSingly(p) ==
  LET firstBad == {i \in DOMAIN p : p[i] = Bad} IN
    IF firstBad = {} THEN p
    ELSE SubSeq(p, 1, (CHOOSE i \in firstBad : \A j \in firstBad : i <= j) - 1)

\* parse_payload(): the sites after a payload.
Stored(p) == IF Valid(p) THEN p ELSE sites

(***************************************************************************)
(* A text that is an array: inside the hook the mutex is already held by   *)
(* this thread; another thread gets it when update() has returned.         *)
(***************************************************************************)
AnswerParsed(p) ==
  /\ life = "on"
  /\ Answered
  /\ sites' = Stored(p)
  /\ status' = IF Valid(p) THEN "ready" ELSE "error"
  /\ UNCHANGED <<life, hooked, at, game>>

\* The answer to a getter that was destroyed is given to freed memory.
AnswerTooLate ==
  /\ life = "gone"
  /\ Answered
  /\ life' = "crashed"
  /\ UNCHANGED <<status, hooked, sites, at, game>>

-----------------------------------------------------------------------------
(* What the game does with the sites.                                      *)

\* sites_size(), and then the name and addresses of each.
ReadSites ==
  /\ Free
  /\ known' = sites
  /\ UNCHANGED <<life, getter, family, list, pingers>>

Complete(f) == \A i \in DOMAIN sites : sites[i][f] # <<>>

(***************************************************************************)
(* ipv4_list() and ipv6_list(): the first address of each site; without    *)
(* one for every site the list is empty, and the call an error.            *)
(***************************************************************************)
FirstAddresses(f) ==
  IF Complete(f) THEN [i \in DOMAIN sites |-> sites[i][f][1]] ELSE <<>>

FillList(f) ==
  /\ Free
  /\ family' = f
  /\ list' = FirstAddresses(f)
  /\ UNCHANGED <<life, getter, known, pingers>>

\* pingers_create() copies the list.
CreatePingers ==
  /\ pingers = NoPingers
  /\ life = "on"
  /\ pingers' = [family |-> family, ips |-> list]
  /\ UNCHANGED <<life, getter, known, family, list>>

-----------------------------------------------------------------------------
Answer ==
  \/ AnswerFailed
  \/ \E p \in Payload : AnswerParsed(p)
  \/ AnswerTooLate

Next ==
  \/ Create \/ Shutdown \/ Destroy
  \/ Ask \/ AskUnhooked \/ Return
  \/ Answer
  \/ ReadSites
  \/ \E f \in Family : FillList(f)
  \/ CreatePingers

Spec == Init /\ [][Next]_vars

(***************************************************************************)
(* The game updates until the getter is ready ("must be called frequently  *)
(* until the HTTP Get callback has finished", c_api.h 154), the hook       *)
(* answers what it was asked, and after enough tries with a valid payload. *)
(***************************************************************************)
GoodAnswer == \E p \in Payload : Valid(p) /\ AnswerParsed(p)

FairSpec ==
  /\ Spec
  /\ WF_vars(Ask \/ AskUnhooked) /\ WF_vars(Return)
  /\ WF_vars(Answer) /\ SF_vars(GoodAnswer)

-----------------------------------------------------------------------------
(* Properties.                                                             *)

Addresses == Seq(STRING)

\* Every variable has its type, and no two requests are ever under way.
TypeOK ==
  /\ life \in {"off", "on", "gone", "crashed"}
  /\ status \in {"uninitialized", "initialized", "waiting", "error", "ready"}
  /\ hooked \in BOOLEAN
  /\ sites \in Seq(Site) /\ known \in Seq(Site)
  /\ at \in {"idle", "calling"}
  /\ unanswered \in 0 .. 1
  /\ family \in Family /\ list \in Addresses
  /\ pingers \in [family : Family, ips : Addresses] \cup {NoPingers}

(***************************************************************************)
(* The getter waits exactly while an answer is to come: whether the hook   *)
(* answers inside the request, or another thread does before update() has  *)
(* returned, the answer is not overwritten and not waited for in vain.     *)
(***************************************************************************)
WaitsForAnswer == life = "on" => (status = "waiting" <=> unanswered = 1)

(***************************************************************************)
(* There are sites only in a ready getter, and what a game has read of     *)
(* them, one call after another, stays true: no failed request before, no  *)
(* update or shutdown after, changes them.  So a pinger's position is that *)
(* of its site, which is how main.cpp puts statistics to host names (197). *)
(***************************************************************************)
PingerHasItsSite ==
  /\ sites # <<>> => status = "ready"
  /\ known # <<>> => known = sites
  /\ pingers # NoPingers =>
       \/ pingers.ips = <<>>
       \/ /\ DOMAIN pingers.ips = DOMAIN sites
          /\ \A i \in DOMAIN sites : pingers.ips[i] = sites[i][pingers.family][1]

\* "If the sites_getter status is error, calling update again will resend the
\* HTTP Get request" (c_api.h 155): a getter with its hook gets its sites.
GetsReady == life = "on" ~> (status = "ready" \/ ~hooked \/ life # "on")

=============================================================================
