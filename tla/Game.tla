-------------------------------- MODULE Game --------------------------------
(***************************************************************************)
(* The game of the integration example (one/fake/arcus/game/game.cpp) on   *)
(* its wrapper of the C API (one_server_wrapper.cpp): two state machines,  *)
(* matchmaking and match, driven by alter_game_state(), by the callbacks   *)
(* that update() runs, and by set_player_count(), which takes no lock.     *)
(*                                                                         *)
(* alter_game_state(), update(), init() and shutdown() hold the mutex      *)
(* _game: `at' says where the call that holds it is.  The server behind    *)
(* the wrapper is seen as the game sees it: ready or not, and with the     *)
(* live state and status it was last given.                                *)
(***************************************************************************)
EXTENDS Integers

CONSTANTS
  InitialMax,     (* max_players given to init()                            *)
  Allocations,    (* players of the allocated messages, any int; 0 when     *)
                  (* unreadable                                             *)
  Counts,         (* arguments of set_player_count()                        *)
  Arguments,      (* messages asked for by the custom commands, any int     *)
  PlayerFloor,    (* bound: players below which the model stops counting    *)
  PlayerCap,      (* bound: players above which it does                     *)
  MaxMessages,    (* bound: messages received                               *)
  MaxSets,        (* bound: calls of set_player_count()                     *)
  MaxDrops,       (* bound: agents that leave                               *)
  MaxStarts,      (* bound: calls of init()                                 *)
  NotGiven        (* the live state of a server that was given none         *)

\* Players are counted from PlayerFloor to PlayerCap.
PlayerRange == PlayerFloor .. PlayerCap

ASSUME GamePlayers ==
  /\ InitialMax \in PlayerRange
  /\ Allocations \subseteq PlayerRange /\ Counts \subseteq PlayerRange
  /\ Arguments \subseteq Int
ASSUME GameBounds ==
  /\ PlayerFloor \in Int /\ PlayerFloor < 0
  /\ PlayerCap \in Nat /\ MaxMessages \in Nat /\ MaxSets \in Nat
  /\ MaxDrops \in Nat /\ MaxStarts \in Nat

VARIABLES
  life,        (* "new", "on", "off", "exited" or "crashed"                 *)
  ready,       (* the server's status is ready                              *)
  at,          (* where the holder of _game is                              *)
  matchmaking, (* _matchmaking_status                                       *)
  match,       (* _match_status                                             *)
  players, max,
  seen,        (* the _players that update_match() read                     *)
  waited,      (* the transition delay or match duration is over            *)
  built,       (* the GameState alter_game_state() is about to set          *)
  setter,      (* where set_player_count() is                               *)
  setterBuilt, (* the GameState it is about to set                          *)
  live,        (* the live state the server was last given                  *)
  reported,    (* the application instance status it was last given         *)
  exit,        (* _exit_time: "none", "planned", or "due"                   *)
  pending,     (* _number_message_to_send                                   *)
  messages, sets, drops, starts   (* how often, against the bounds          *)

server  == <<ready, live, reported>>
status  == <<matchmaking, match, waited>>
setting == <<setter, setterBuilt>>
bounds  == <<messages, sets, drops, starts>>
vars == <<life, server, at, status, players, max, seen, built, setting, exit,
          pending, bounds>>

State(p, m) == [players |-> p, max |-> m]
Current == State(players, max)

Init ==
  /\ life = "new" /\ at = "idle"
  /\ ready = FALSE /\ live = NotGiven /\ reported = "none"
  /\ matchmaking = "none" /\ match = "none" /\ waited = FALSE
  /\ players = 0 /\ max = 0 /\ seen = 0
  /\ built = State(0, 0)
  /\ setter = "idle" /\ setterBuilt = State(0, 0)
  /\ exit = "none"
  /\ pending = 0
  /\ messages = 0 /\ sets = 0 /\ drops = 0 /\ starts = 0

Free == life = "on" /\ at = "idle"

-----------------------------------------------------------------------------
(* Life cycle.                                                             *)

(***************************************************************************)
(* init(): a new server, no players, and the live state.  What the game    *)
(* knows of matchmaking and match is kept from before a shutdown().        *)
(***************************************************************************)
Start ==
  /\ life \in {"new", "off"}
  /\ starts < MaxStarts
  /\ life' = "on"
  /\ ready' = FALSE /\ reported' = "none"
  /\ players' = 0 /\ max' = InitialMax
  /\ live' = State(0, InitialMax)
  /\ starts' = starts + 1
  /\ UNCHANGED <<at, status, seen, built, setting, exit, pending, messages, sets, drops>>

\* shutdown(): the server is destroyed, and all it was given.
Shutdown ==
  /\ Free
  /\ life' = "off"
  /\ ready' = FALSE /\ live' = NotGiven /\ reported' = "none"
  /\ UNCHANGED <<at, status, players, max, seen, built, setting, exit, pending, bounds>>

-----------------------------------------------------------------------------
(* alter_game_state(), which does nothing unless the server is ready.      *)

BeginAlter ==
  /\ Free
  /\ ready
  /\ at' = "altering"
  /\ seen' = players
  /\ UNCHANGED <<life, server, status, players, max, built, setting, exit, pending, bounds>>

\* Mutant: a game that has not started waits for its delay first.
StartupWaits ==
  \/ /\ matchmaking = "none"
     /\ matchmaking' = IF waited THEN "starting" ELSE "none"
     /\ UNCHANGED waited
  \/ /\ matchmaking = "starting"
     /\ matchmaking' = IF waited THEN "online" ELSE "starting"
     /\ UNCHANGED waited
  \/ matchmaking \in {"online", "allocated"} /\ UNCHANGED <<matchmaking, waited>>

\* update_startup().
Startup ==
  \/ /\ matchmaking = "none"
     /\ matchmaking' = "starting" /\ waited' = FALSE
  \/ /\ matchmaking = "starting"
     /\ matchmaking' = IF waited THEN "online" ELSE "starting"
     /\ UNCHANGED waited
  \/ matchmaking \in {"online", "allocated"} /\ UNCHANGED <<matchmaking, waited>>

\* Mutant: the matchmaking status is left to the next allocated message.
EndMatchOnly ==
  /\ match' = "none" /\ matchmaking' = matchmaking
  /\ players' = 0 /\ max' = 0
  /\ UNCHANGED waited

\* update_match() when the last player has left, with set_match_status(none).
EndMatch ==
  /\ match' = "none" /\ matchmaking' = "online"
  /\ players' = 0 /\ max' = 0
  /\ UNCHANGED waited

\* ++_players and --_players, which stop at the bounds.
Add(p, n) == IF p + n \in PlayerRange THEN p + n ELSE p

\* update_match() of a match whose players join: `seen' was read before, and
\* ++_players reads and writes a variable that set_player_count() writes too.
Joining ==
  /\ match = "joining"
  /\ \/ /\ seen = max
        /\ match' = "playing" /\ waited' = FALSE
        /\ UNCHANGED players
     \/ /\ seen # max
        /\ \E p \in {seen, players} : players' = Add(p, 1)
        /\ UNCHANGED <<match, waited>>
  /\ UNCHANGED <<matchmaking, max>>

Playing ==
  /\ match = "playing"
  /\ match' = IF waited THEN "leaving" ELSE "playing"
  /\ UNCHANGED <<matchmaking, players, max, waited>>

\* Mutant: the match ends with the last player still to leave.
LeavingEarly ==
  /\ match = "leaving"
  /\ \/ seen = 1 /\ EndMatch
     \/ /\ seen # 1
        /\ \E p \in {seen, players} : players' = Add(p, -1)
        /\ UNCHANGED <<match, matchmaking, max, waited>>

Leaving ==
  /\ match = "leaving"
  /\ \/ seen = 0 /\ EndMatch
     \/ /\ seen # 0
        /\ \E p \in {seen, players} : players' = Add(p, -1)
        /\ UNCHANGED <<match, matchmaking, max, waited>>

\* update_startup() and update_match(): without a match only the first, and
\* with one only the second, changes anything.
UpdateMatch ==
  /\ at = "altering"
  /\ \/ match = "none" /\ Startup /\ UNCHANGED <<match, players, max>>
     \/ Joining \/ Playing \/ Leaving
  /\ at' = "building"
  /\ UNCHANGED <<life, server, seen, built, setting, exit, pending, bounds>>

\* Mutant: only players that update_match() has changed are given on.
BuildChanged ==
  /\ at = "building"
  /\ built' = IF seen = players THEN live ELSE Current
  /\ at' = "setting"
  /\ seen' = 0
  /\ UNCHANGED <<life, server, status, players, max, setting, exit, pending, bounds>>

\* update_arcus_server_game_state(): the state is read ...
Build ==
  /\ at = "building"
  /\ built' = Current
  /\ at' = "setting"
  /\ seen' = 0
  /\ UNCHANGED <<life, server, status, players, max, setting, exit, pending, bounds>>

\* ... and given to the server.
SetLiveState ==
  /\ at = "setting"
  /\ live' = built
  /\ at' = "reporting"
  /\ built' = State(0, 0)
  /\ UNCHANGED <<life, ready, reported, status, players, max, seen, setting, exit,
                 pending, bounds>>

\* What is reported in each status: "none" never comes here, and a game that
\* is starting is reported online.
Report ==
  /\ at = "reporting"
  /\ reported' = CASE matchmaking = "none" -> "starting"
                   [] matchmaking \in {"starting", "online"} -> "online"
                   [] matchmaking = "allocated" -> "allocated"
  /\ at' = "idle"
  /\ UNCHANGED <<life, ready, live, status, players, max, seen, built, setting, exit,
                 pending, bounds>>

-----------------------------------------------------------------------------
(* update() and the callbacks the server runs in it.                       *)

\* Mutant: the planned time is looked at only with a ready server.
ExitWhenReady ==
  /\ Free
  /\ exit = "due" /\ ready
  /\ life' = "exited"
  /\ UNCHANGED <<server, at, status, players, max, seen, built, setting, exit, pending,
                 bounds>>

\* A planned time to exit that is over ends the process.
Exit ==
  /\ Free
  /\ exit = "due"
  /\ life' = "exited"
  /\ UNCHANGED <<server, at, status, players, max, seen, built, setting, exit, pending,
                 bounds>>

\* One reverse metadata message is sent, or fails: its error is ignored.
BeginUpdate ==
  /\ Free
  /\ exit # "due"
  /\ pending' = IF pending > 0 THEN pending - 1 ELSE pending
  /\ at' = "serving"
  /\ UNCHANGED <<life, server, status, players, max, seen, built, setting, exit, bounds>>

Received ==
  /\ at = "serving"
  /\ ready
  /\ messages < MaxMessages
  /\ messages' = messages + 1

(***************************************************************************)
(* allocated_callback(): what could not be read of the message is 0, and   *)
(* what was read may be negative.  A game that is not online, or already   *)
(* allocated, skips it.                                                    *)
(***************************************************************************)
Allocated(p) ==
  /\ Received
  /\ IF matchmaking = "online"
     THEN max' = p /\ match' = "joining" /\ matchmaking' = "allocated"
     ELSE UNCHANGED <<max, match, matchmaking>>
  /\ UNCHANGED <<life, server, at, waited, players, seen, built, setting, exit, pending,
                 sets, drops, starts>>

\* custom_command_callback(): stoi(argument) messages more are to be sent, or
\* fewer when it is negative.
CustomCommand(n) ==
  /\ Received
  /\ pending' = pending + n
  /\ UNCHANGED <<life, server, at, status, players, max, seen, built, setting, exit, sets,
                 drops, starts>>

\* soft_stop_callback(), with the exit time enabled as in main.cpp: the time
\* to exit is drawn anew.
SoftStop ==
  /\ Received
  /\ exit' = "planned"
  /\ UNCHANGED <<life, server, at, status, players, max, seen, built, setting, pending,
                 sets, drops, starts>>

\* A soft stop with a timeout of 0 divides by zero (355), and a number of
\* players that stoi() cannot read ends in an exception nobody catches.
CallbackCrashes ==
  /\ Received
  /\ life' = "crashed"
  /\ UNCHANGED <<server, at, status, players, max, seen, built, setting, exit, pending,
                 sets, drops, starts>>

\* The server's update returns: an agent may have become ready, or left.
EndUpdate ==
  /\ at = "serving" /\ life = "on"
  /\ \/ ready' = TRUE /\ UNCHANGED drops
     \/ ready' = FALSE /\ drops' = IF ready THEN drops + 1 ELSE drops
  /\ drops' <= MaxDrops
  /\ at' = "idle"
  /\ UNCHANGED <<life, live, reported, status, players, max, seen, built, setting, exit,
                 pending, messages, sets, starts>>

-----------------------------------------------------------------------------
(* set_player_count(), by another thread, without the mutex.               *)

SetPlayerCount(n) ==
  /\ setter = "idle"
  /\ life = "on"
  /\ sets < MaxSets
  /\ n # players
  /\ players' = n
  /\ setter' = "building"
  /\ sets' = sets + 1
  /\ UNCHANGED <<life, server, at, status, max, seen, built, setterBuilt, exit, pending,
                 messages, drops, starts>>

SetterBuilds ==
  /\ setter = "building"
  /\ setterBuilt' = Current
  /\ setter' = "setting"
  /\ UNCHANGED <<life, server, at, status, players, max, seen, built, exit, pending, bounds>>

SetterSets ==
  /\ setter = "setting"
  /\ live' = IF life = "on" THEN setterBuilt ELSE live
  /\ setter' = "idle"
  /\ setterBuilt' = State(0, 0)
  /\ UNCHANGED <<life, ready, reported, at, status, players, max, seen, built, exit, pending, bounds>>

\* The delay or the duration that runs is over; so is the time to exit.
TimePasses ==
  /\ life = "on"
  /\ \/ ~waited /\ waited' = TRUE /\ UNCHANGED exit
     \/ exit = "planned" /\ exit' = "due" /\ UNCHANGED waited
  /\ UNCHANGED <<life, server, at, matchmaking, match, players, max, seen, built, setting,
                 pending, bounds>>

-----------------------------------------------------------------------------
Altering == UpdateMatch \/ Build \/ SetLiveState \/ Report
Setting == SetterBuilds \/ SetterSets

Next ==
  \/ Start \/ Shutdown
  \/ BeginAlter \/ Altering
  \/ Exit \/ BeginUpdate \/ EndUpdate
  \/ \E p \in Allocations : Allocated(p)
  \/ \E n \in Arguments : CustomCommand(n)
  \/ SoftStop \/ CallbackCrashes
  \/ \E n \in Counts : SetPlayerCount(n)
  \/ Setting
  \/ TimePasses

Spec == Init /\ [][Next]_vars

(***************************************************************************)
(* The game loop of main.cpp (72) calls alter_game_state() and update() in *)
(* turn, for ever; time passes; and an agent that keeps trying is ready    *)
(* again at last.                                                          *)
(***************************************************************************)
AgentReady == EndUpdate /\ ready'

FairSpec ==
  /\ Spec
  /\ SF_vars(BeginAlter) /\ WF_vars(Altering)
  /\ SF_vars(Exit \/ BeginUpdate) /\ WF_vars(EndUpdate) /\ SF_vars(AgentReady)
  /\ WF_vars(Setting)
  /\ WF_vars(TimePasses)

-----------------------------------------------------------------------------
(* Properties.                                                             *)

States == [players : PlayerRange, max : PlayerRange]

\* Every variable has its type; "starting" is never reported.
TypeOK ==
  /\ life \in {"new", "on", "off", "exited", "crashed"}
  /\ ready \in BOOLEAN /\ live \in States \cup {NotGiven}
  /\ reported \in {"none", "online", "allocated"}
  /\ at \in {"idle", "altering", "building", "setting", "reporting", "serving"}
  /\ matchmaking \in {"none", "starting", "online", "allocated"}
  /\ match \in {"none", "joining", "playing", "leaving"}
  /\ waited \in BOOLEAN
  /\ players \in PlayerRange /\ max \in PlayerRange /\ seen \in PlayerRange
  /\ built \in States /\ setterBuilt \in States
  /\ setter \in {"idle", "building", "setting"}
  /\ exit \in {"none", "planned", "due"}
  /\ pending \in Int
  /\ messages \in 0 .. MaxMessages /\ sets \in 0 .. MaxSets
  /\ drops \in 0 .. MaxDrops /\ starts \in 0 .. MaxStarts

(***************************************************************************)
(* A game is allocated exactly while it has a match (game.h 105), across   *)
(* agents that leave and restarts too, and whenever no call of             *)
(* alter_game_state() is on its way it reports itself allocated only then. *)
(***************************************************************************)
MatchIsAllocated ==
  /\ match # "none" <=> matchmaking = "allocated"
  /\ at \in {"idle", "serving"} /\ reported = "allocated" => matchmaking = "allocated"

InUse == life = "on"

(***************************************************************************)
(* A match ends, and the game can be allocated again, unless the players   *)
(* are past the number that update_match() compares theirs with == (242,   *)
(* 258): after a call of set_player_count(), or in a match that was        *)
(* allocated for a negative number of players, which no game ever reaches. *)
(***************************************************************************)
PastTheEnd ==
  \/ match = "joining" /\ players > max /\ (sets > 0 \/ max < 0)
  \/ match = "leaving" /\ players < 0 /\ sets > 0
MatchEnds == match # "none" ~> (match = "none" \/ PastTheEnd \/ ~InUse)

(***************************************************************************)
(* The live state the server holds does not stay behind the game's,        *)
(* though two threads read the game and give the state in separate steps.  *)
(***************************************************************************)
LiveStateFollows == []<>(InUse => live = Current)

\* "The process will end at a random time from the time of message receipt"
\* (game.h 66-69): a game told to stop does, if it is not shut down before.
StopsWhenTold == exit # "none" ~> (life \in {"exited", "crashed"} \/ ~InUse)

=============================================================================
