----------------------------- MODULE RequestGuard ----------------------------
(***************************************************************************)
(* The in-memory guard in front of the analysis service,                   *)
(* src/app/lib/request-guard.ts: how many analyses one client may start in *)
(* a window, how many may start in a UTC day, how many may run at once.    *)
(* The state is one object per server process, read and written without a  *)
(* pause, so acquiring and releasing are single steps.                     *)
(***************************************************************************)
EXTENDS Integers

CONSTANTS
  Addresses,        \* what clientAddress returns
  WindowLength,     \* CHECKBACK_RATE_WINDOW_MS, at most a day
  DayLength,        \* a UTC day
  ClientLimit,      \* CHECKBACK_RATE_LIMIT
  DailyLimit,       \* CHECKBACK_DAILY_LIMIT
  ConcurrentLimit   \* CHECKBACK_MAX_CONCURRENT

ASSUME GuardAssumption ==
  /\ DayLength \in Nat \ {0} /\ WindowLength \in 1..DayLength
  /\ ClientLimit \in Nat \ {0} /\ DailyLimit \in Nat \ {0}
  /\ ConcurrentLimit \in Nat \ {0}

VARIABLES
  now,              \* Date.now()
  guard             \* __checkbackGuardState

NoWindow == [start |-> 0, count |-> 0]
NoClients == [a \in Addresses |-> NoWindow]

Day == now \div DayLength

\* Mutant: the new day forgets the running analyses as well.
TodaysForgetful ==
  IF guard.day = Day THEN guard
  ELSE [day |-> Day, daily |-> 0, active |-> 0, clients |-> NoClients]

\* getState: a new UTC day clears the daily count and every client window;
\* the analyses that run keep their permits.
Todays ==
  IF guard.day = Day THEN guard
  ELSE [guard EXCEPT !.day = Day, !.daily = 0, !.clients = NoClients]

\* A client without a window has count 0.  Every acquire drops the expired
\* ones, its own too, whether it is granted or not.
Swept ==
  [Todays EXCEPT !.clients =
     [a \in Addresses |-> IF now - @[a].start >= WindowLength THEN NoWindow ELSE @[a]]]

PermitAllowed(address) ==
  /\ Swept.clients[address].count < ClientLimit
  /\ Swept.daily < DailyLimit
  /\ Swept.active < ConcurrentLimit

Acquire(address) ==
  /\ PermitAllowed(address)
  /\ guard' = [Swept EXCEPT
       !.clients[address] = [start |-> IF @.count = 0 THEN now ELSE @.start,
                             count |-> @.count + 1],
       !.daily = @ + 1, !.active = @ + 1]

Refuse(address) ==
  /\ ~PermitAllowed(address)
  /\ guard' = Swept

\* A permit's release does nothing the second time; it never goes below zero.
Release == guard' = [guard EXCEPT !.active = IF @ > 0 THEN @ - 1 ELSE 0]

GuardInit ==
  /\ now = 0
  /\ guard = [day |-> 0, daily |-> 0, active |-> 0, clients |-> NoClients]
==============================================================================
