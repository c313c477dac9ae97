------------------------------ MODULE GameProofs ------------------------------
(***************************************************************************)
(* Game for every number of players, every set of messages and every       *)
(* bound: its types, that a status of "starting" is never reported, and    *)
(* that the two state machines agree on whether there is a match.          *)
(***************************************************************************)
EXTENDS Game, TLAPS

\* update_startup() has left "none" by the time a status is reported.
Started == at \in {"building", "setting", "reporting"} => matchmaking # "none"

Inv == TypeOK /\ Started /\ MatchIsAllocated

-----------------------------------------------------------------------------
LEMMA Numbers ==
  /\ PlayerCap \in Nat /\ PlayerFloor \in Int
  /\ 0 \in PlayerRange
  /\ \A p \in PlayerRange, n \in Int : Add(p, n) \in PlayerRange
BY GameBounds DEF PlayerRange, Add

LEMMA InitInv == Init => Inv
<1> SUFFICES ASSUME Init PROVE Inv
  OBVIOUS
<1>1. /\ ready \in BOOLEAN /\ waited \in BOOLEAN
  BY Zenon DEF Init
<1>2. /\ players \in PlayerRange /\ max \in PlayerRange /\ seen \in PlayerRange
      /\ built \in States /\ setterBuilt \in States
  BY Numbers DEF Init, States, State
<1>3. /\ messages \in 0 .. MaxMessages /\ sets \in 0 .. MaxSets
      /\ drops \in 0 .. MaxDrops /\ starts \in 0 .. MaxStarts /\ pending \in Int
  BY GameBounds DEF Init
<1>4. /\ life \in {"new", "on", "off", "exited", "crashed"}
      /\ live \in States \cup {NotGiven}
      /\ reported \in {"none", "online", "allocated"}
      /\ at \in {"idle", "altering", "building", "setting", "reporting", "serving"}
      /\ matchmaking \in {"none", "starting", "online", "allocated"}
      /\ match \in {"none", "joining", "playing", "leaving"}
      /\ setter \in {"idle", "building", "setting"}
      /\ exit \in {"none", "planned", "due"}
  BY DEF Init
<1>5. TypeOK
  BY <1>1, <1>2, <1>3, <1>4 DEF TypeOK
<1> QED
  BY <1>5 DEF Init, Inv, Started, MatchIsAllocated

-----------------------------------------------------------------------------
(***************************************************************************)
(* One step of update_startup() and update_match().                        *)
(***************************************************************************)
LEMMA UpdateMatchPreservesInv ==
  ASSUME Inv, UpdateMatch
  PROVE  Inv'
<1> USE DEF Inv, Started, MatchIsAllocated, server, setting, bounds
<1>0. /\ at = "altering" /\ at' = "building"
      /\ UNCHANGED <<life, server, seen, built, setting, exit, pending, bounds>>
  BY DEF UpdateMatch
<1>1. CASE match = "none" /\ Startup /\ UNCHANGED <<match, players, max>>
  <2>1. waited' \in BOOLEAN
    <3>1. waited' = FALSE \/ waited' = waited
      BY <1>1 DEF Startup
    <3> QED  BY <3>1, Zenon DEF TypeOK
  <2>2. matchmaking # "allocated" /\ matchmaking' \in {"starting", "online"}
    BY <1>1 DEF Startup, TypeOK
  <2>3. TypeOK'
    BY <1>0, <1>1, <2>1, <2>2 DEF TypeOK
  <2> QED  BY <1>0, <1>1, <2>2, <2>3
<1>2. CASE Joining
  <2>1. waited' \in BOOLEAN
    <3>1. waited' = FALSE \/ waited' = waited
      BY <1>2 DEF Joining
    <3> QED  BY <3>1, Zenon DEF TypeOK
  <2>2. players' \in PlayerRange
    BY <1>2, Numbers DEF Joining, TypeOK
  <2>3. match' \in {"joining", "playing"} /\ UNCHANGED <<matchmaking, max>>
    BY <1>2 DEF Joining
  <2>4. TypeOK'
    BY <1>0, <2>1, <2>2, <2>3 DEF TypeOK
  <2> QED  BY <1>0, <1>2, <2>3, <2>4 DEF Joining
<1>3. CASE Playing
  <2>1. TypeOK'
    BY <1>0, <1>3 DEF Playing, TypeOK
  <2> QED  BY <1>0, <1>3, <2>1 DEF Playing
<1>4. CASE Leaving
  <2>1. CASE EndMatch
    <3>1. TypeOK'
      BY <1>0, <2>1, Numbers DEF EndMatch, TypeOK
    <3> QED  BY <1>0, <2>1, <3>1 DEF EndMatch
  <2>2. CASE ~EndMatch
    <3>1. players' \in PlayerRange
      BY <1>4, <2>2, Numbers DEF Leaving, TypeOK
    <3>2. UNCHANGED <<match, matchmaking, max, waited>>
      BY <1>4, <2>2 DEF Leaving
    <3>3. TypeOK'
      BY <1>0, <3>1, <3>2 DEF TypeOK
    <3> QED  BY <1>0, <1>4, <3>2, <3>3 DEF Leaving
  <2> QED  BY <2>1, <2>2
<1> QED  BY <1>1, <1>2, <1>3, <1>4 DEF UpdateMatch

LEMMA NextPreservesInv == Inv /\ [Next]_vars => Inv'
<1> SUFFICES ASSUME Inv, [Next]_vars PROVE Inv'
  OBVIOUS
<1> USE GamePlayers, GameBounds, Numbers
    DEF Inv, Started, MatchIsAllocated, server, status, setting, bounds, Received, Free
<1>0. Current \in States
  BY DEF Current, State, States, TypeOK
<1>1. CASE Start
  <2>1. ready' \in BOOLEAN
    BY <1>1, Zenon DEF Start
  <2>2. live' \in States
    BY <1>1 DEF Start, State, States
  <2>3. TypeOK'
    BY <1>1, <2>1, <2>2 DEF Start, TypeOK
  <2> QED  BY <1>1, <2>3 DEF Start
<1>2. CASE Shutdown
  <2>1. ready' \in BOOLEAN
    BY <1>2, Zenon DEF Shutdown
  <2>2. TypeOK'
    BY <1>2, <2>1 DEF Shutdown, TypeOK
  <2> QED  BY <1>2, <2>2 DEF Shutdown
<1>3. CASE BeginAlter
  BY <1>3 DEF BeginAlter, TypeOK
<1>4. CASE UpdateMatch
  BY <1>4, UpdateMatchPreservesInv
<1>5. CASE Build
  BY <1>5, <1>0 DEF Build, TypeOK
<1>6. CASE SetLiveState
  <2>1. built' \in States /\ live' \in States
    BY <1>6 DEF SetLiveState, State, States, TypeOK
  <2> QED  BY <1>6, <2>1 DEF SetLiveState, TypeOK
<1>7. CASE Report
  <2>1. /\ reported' \in {"online", "allocated"}
        /\ reported' = "allocated" => matchmaking = "allocated"
    BY <1>7 DEF Report, TypeOK
  <2> QED  BY <1>7, <2>1 DEF Report, TypeOK
<1>8. CASE Exit
  BY <1>8 DEF Exit, TypeOK
<1>9. CASE BeginUpdate
  BY <1>9 DEF BeginUpdate, TypeOK
<1>10. CASE EndUpdate
  <2>1. ready' \in BOOLEAN
    <3>1. ready' = TRUE \/ ready' = FALSE
      BY <1>10, Zenon DEF EndUpdate
    <3> QED  BY <3>1, Zenon
  <2>2. drops' \in 0 .. MaxDrops
    BY <1>10 DEF EndUpdate, TypeOK
  <2>3. TypeOK'
    BY <1>10, <2>1, <2>2 DEF EndUpdate, TypeOK
  <2> QED  BY <1>10, <2>3 DEF EndUpdate
<1>11. ASSUME NEW p \in Allocations, Allocated(p) PROVE Inv'
  <2>1. CASE matchmaking = "online"
    BY <1>11, <2>1 DEF Allocated, TypeOK
  <2>2. CASE matchmaking # "online"
    BY <1>11, <2>2 DEF Allocated, TypeOK
  <2> QED  BY <2>1, <2>2
<1>12. ASSUME NEW n \in Arguments, CustomCommand(n) PROVE Inv'
  BY <1>12 DEF CustomCommand, TypeOK
<1>13. CASE SoftStop
  BY <1>13 DEF SoftStop, TypeOK
<1>14. CASE CallbackCrashes
  BY <1>14 DEF CallbackCrashes, TypeOK
<1>15. ASSUME NEW n \in Counts, SetPlayerCount(n) PROVE Inv'
  BY <1>15 DEF SetPlayerCount, TypeOK
<1>16. CASE SetterBuilds
  BY <1>16, <1>0 DEF SetterBuilds, TypeOK
<1>17. CASE SetterSets
  <2>1. live' \in States \cup {NotGiven} /\ setterBuilt' \in States
    BY <1>17 DEF SetterSets, State, States, TypeOK
  <2> QED  BY <1>17, <2>1 DEF SetterSets, TypeOK
<1>18. CASE TimePasses
  <2>1. waited' \in BOOLEAN /\ exit' \in {"none", "planned", "due"}
    <3>1. (waited' = TRUE \/ waited' = waited) /\ (exit' = exit \/ exit' = "due")
      BY <1>18 DEF TimePasses
    <3>2. waited' \in BOOLEAN
      BY <3>1, Zenon DEF TypeOK
    <3> QED  BY <3>1, <3>2 DEF TypeOK
  <2>2. TypeOK'
    BY <1>18, <2>1 DEF TimePasses, TypeOK
  <2> QED  BY <1>18, <2>2 DEF TimePasses
<1>19. CASE UNCHANGED vars
  BY <1>19 DEF vars, TypeOK
<1> QED
  BY <1>1, <1>2, <1>3, <1>4, <1>5, <1>6, <1>7, <1>8, <1>9, <1>10, <1>11, <1>12, <1>13,
     <1>14, <1>15, <1>16, <1>17, <1>18, <1>19 DEF Next, Altering, Setting

LEMMA InvHolds == Spec => []Inv
BY InitInv, NextPreservesInv, PTL DEF Spec

(***************************************************************************)
(* Every field keeps its type, and "starting" is never reported, though    *)
(* update_startup() has such a status (game.cpp 156).                      *)
(***************************************************************************)
THEOREM TypeCorrect == Spec => []TypeOK
<1>1. Inv => TypeOK
  BY DEF Inv
<1> QED  BY <1>1, InvHolds, PTL

(***************************************************************************)
(* A game is allocated exactly while it has a match, whatever its players, *)
(* agents and restarts, and says so to no agent otherwise.                 *)
(***************************************************************************)
THEOREM MatchMeansAllocated == Spec => []MatchIsAllocated
<1>1. Inv => MatchIsAllocated
  BY DEF Inv
<1> QED  BY <1>1, InvHolds, PTL

=============================================================================
