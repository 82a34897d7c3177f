--------------------------- MODULE LoginRateLimit ---------------------------
(***************************************************************************)
(* The limit on failed logins of one account.  A login looks at the        *)
(* account's entry, checks the password without the lock and records the   *)
(* outcome, so that several may be between the two.  Times are counted     *)
(* back from now.                                                          *)
(***************************************************************************)
EXTENDS Naturals, FiniteSets

CONSTANTS
  LoginCall,    \* logins of the account that can be under way at once
  MaxAttempts,  \* failures that block the account, 8
  LoginWindow,  \* the span in which they are counted, 60 s
  BlockTime     \* how long the account is blocked, 300 s

ASSUME RateAssumption ==
  /\ IsFiniteSet(LoginCall)
  /\ MaxAttempts \in Nat \ {0}
  /\ LoginWindow \in Nat /\ BlockTime \in Nat /\ LoginWindow < BlockTime

VARIABLES
  entry,     \* the account's Entry, its window as an age, its block as the time left
  checking,  \* the logins that were allowed and not recorded yet
  failed     \* failed[a]: how many passwords were refused in the last a seconds

rateVars == <<entry, checking, failed>>

\* or_insert: the entry of an account that has none.
NewEntry == [known |-> TRUE, attempts |-> 0, window |-> 0, blocked |-> FALSE, left |-> 0]
NoEntry == [NewEntry EXCEPT !.known = FALSE]
NoFailures == [a \in 0 .. LoginWindow |-> 0]

RateTypeOK ==
  /\ entry \in [known : BOOLEAN, attempts : Nat, window : 0 .. LoginWindow + 1,
                blocked : BOOLEAN, left : 0 .. BlockTime]
  /\ checking \subseteq LoginCall
  /\ failed \in [0 .. LoginWindow -> Nat]

RateInit == entry = NoEntry /\ checking = {} /\ failed = NoFailures

-----------------------------------------------------------------------------
Current == IF entry.known THEN entry ELSE NewEntry

\* A window that is over is replaced by a new one.
Rolled(e) == IF e.window > LoginWindow THEN [e EXCEPT !.attempts = 0, !.window = 0] ELSE e

\* Mutant of Allowed: a window that is over ends the block as well.
AllowedByWindow(e) ==
  IF e.blocked /\ e.left > 0 /\ e.window <= LoginWindow THEN e ELSE Rolled([e EXCEPT !.blocked = FALSE])

\* allow: what it leaves in the map; a block that is over starts a new count.
Allowed(e) ==
  IF e.blocked /\ e.left > 0 THEN e
  ELSE IF e.blocked THEN NewEntry
  ELSE Rolled(e)

\* user_login: the first lock section.
LoginAllow(call) ==
  /\ call \notin checking
  /\ entry' = Allowed(Current)
  /\ checking' = IF entry'.blocked THEN checking ELSE checking \union {call}
  /\ UNCHANGED failed

\* record_failure: a wrong password, an unknown account or an error of the database.
LoginFailed(call) ==
  /\ call \in checking
  /\ checking' = checking \ {call}
  /\ LET counted == [Rolled(Current) EXCEPT !.attempts = @ + 1]
     IN  entry' = IF counted.attempts >= MaxAttempts
                  THEN [counted EXCEPT !.blocked = TRUE, !.left = BlockTime] ELSE counted
  /\ failed' = [a \in 0 .. LoginWindow |-> failed[a] + 1]

\* record_success forgets the account; failures before it do not count any more.
LoginSucceeded(call) ==
  /\ call \in checking
  /\ checking' = checking \ {call}
  /\ entry' = NoEntry
  /\ failed' = NoFailures

\* The request is dropped while the password is looked up: nothing is recorded.
LoginDropped(call) ==
  /\ call \in checking
  /\ checking' = checking \ {call}
  /\ UNCHANGED <<entry, failed>>

LoginTimePasses ==
  /\ entry' = IF ~entry.known THEN entry
              ELSE [entry EXCEPT !.window = IF @ > LoginWindow THEN @ ELSE @ + 1,
                                 !.left = IF @ = 0 THEN 0 ELSE @ - 1]
  /\ failed' = [a \in 0 .. LoginWindow |-> IF a = 0 THEN 0 ELSE failed[a - 1]]
  /\ UNCHANGED checking

RateNext ==
  \/ \E call \in LoginCall :
       LoginAllow(call) \/ LoginFailed(call) \/ LoginSucceeded(call) \/ LoginDropped(call)
  \/ LoginTimePasses

-----------------------------------------------------------------------------
\* In any span as long as the window no more passwords are refused than two windows admit
\* and the logins that were let in together, which is what the gap between the two lock
\* sections and the windows that follow each other cost.  It is a third window's worth when
\* more logins than block the account can be under way: some may outlast the whole block.
AttemptsBounded ==
  LET logins  == Cardinality(LoginCall)
      windows == IF logins > MaxAttempts THEN 3 ELSE 2
  IN  failed[LoginWindow] <= windows * (MaxAttempts - 1) + logins
=============================================================================
