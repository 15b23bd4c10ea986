--------------------------- MODULE ExchangePromise ---------------------------
(***************************************************************************)
(* What an exchange promises the agent that asks and the people who read   *)
(* along, whatever becomes of the runs behind it.                          *)
(*                                                                         *)
(* An exchange is answered once, by a reply the conversation shows or by   *)
(* the news that none comes, and then goes on once, when the turn that     *)
(* asked is over.  A turn may ask only while it is under way: the turn of  *)
(* the request, one that answers an exchange, or one that goes on.         *)
(***************************************************************************)
CONSTANTS
  Exchanges,
  Request,  \* the turn of the request itself
  NoTurn    \* nobody has asked

VARIABLES
  requestOver, \* the turn of the request ended by itself
  phase,       \* how far each exchange is
  askedBy,     \* the turn that asked
  told,        \* what the agent that asked is told
  shown        \* the exchanges whose reply the conversation shows

vars == <<requestOver, phase, askedBy, told, shown>>

Answering(x) == <<"target", x>>
GoingOn(x) == <<"resume", x>>
Turns == {Request} \cup {Answering(x) : x \in Exchanges} \cup {GoingOn(x) : x \in Exchanges}

Ends == {"completed", "failed", "cancelled"}

Init ==
  /\ requestOver = FALSE
  /\ phase = [x \in Exchanges |-> "none"]
  /\ askedBy = [x \in Exchanges |-> NoTurn]
  /\ told = [x \in Exchanges |-> "none"]
  /\ shown = {}

UnderWay(t) ==
  \/ t = Request /\ ~requestOver
  \/ \E y \in Exchanges :
       \/ t = Answering(y) /\ phase[y] = "asked"
       \/ t = GoingOn(y) /\ phase[y] = "continuing"

\* The turn ended by itself, with an answer of its own: not as one that was
\* given up, revoked or stopped.
TurnIsOver(t) ==
  \/ t = Request /\ requestOver
  \/ \E y \in Exchanges :
       \/ t = Answering(y) /\ told[y] = "reply"
       \/ t = GoingOn(y) /\ phase[y] \in {"completed", "failed"}

RequestEnds ==
  /\ ~requestOver /\ requestOver' = TRUE
  /\ UNCHANGED <<phase, askedBy, told, shown>>

Ask(x, t) ==
  /\ phase[x] = "none" /\ UnderWay(t)
  /\ phase' = [phase EXCEPT ![x] = "asked"]
  /\ askedBy' = [askedBy EXCEPT ![x] = t]
  /\ UNCHANGED <<requestOver, told, shown>>

Reply(x) ==
  /\ phase[x] = "asked"
  /\ phase' = [phase EXCEPT ![x] = "answered"]
  /\ told' = [told EXCEPT ![x] = "reply"]
  /\ shown' = shown \cup {x}
  /\ UNCHANGED <<requestOver, askedBy>>

\* No reply comes; the agent may be told so in the turn that goes on at once.
GiveUp(x, next) ==
  /\ phase[x] = "asked"
  /\ next = "continuing" => TurnIsOver(askedBy[x])
  /\ phase' = [phase EXCEPT ![x] = next]
  /\ told' = [told EXCEPT ![x] = "unavailable"]
  /\ UNCHANGED <<requestOver, askedBy, shown>>

Continue(x) ==
  /\ phase[x] = "answered" /\ TurnIsOver(askedBy[x])
  /\ phase' = [phase EXCEPT ![x] = "continuing"]
  /\ UNCHANGED <<requestOver, askedBy, told, shown>>

\* Only a continuation completes; what is revoked or stopped ends anywhere.
Settle(x, outcome) ==
  /\ phase[x] = "continuing" \/ (outcome = "cancelled" /\ phase[x] \in {"asked", "answered"})
  /\ phase' = [phase EXCEPT ![x] = outcome]
  /\ UNCHANGED <<requestOver, askedBy, told, shown>>

Moves ==
  \/ RequestEnds
  \/ \E x \in Exchanges :
       \/ \E t \in Turns : Ask(x, t)
       \/ Reply(x) \/ Continue(x)
       \/ \E next \in {"answered", "continuing"} : GiveUp(x, next)
       \/ \E outcome \in Ends : Settle(x, outcome)

Next == vars' # vars /\ Moves

Spec == Init /\ [][Next]_vars

-----------------------------------------------------------------------------
(* What the agents and the readers of an exchange may count on.            *)

\* The agent is told of a reply exactly when the conversation shows one, and
\* goes on with nothing untold.
ToldAsShown ==
  \A x \in Exchanges :
    /\ (x \in shown) = (told[x] = "reply")
    /\ phase[x] \in {"none", "asked"} => told[x] = "none"
    /\ phase[x] \in {"answered", "continuing"} => told[x] # "none"

AnswerStays(x) == told[x] # "none" => told'[x] = told[x]

GoesOnInTurn(x) ==
  phase[x] # "continuing" /\ phase'[x] = "continuing" =>
    TurnIsOver(askedBy[x]) /\ phase[x] \in {"asked", "answered"}

EndStays(x) == phase[x] \in Ends => phase'[x] = phase[x]

\* An answer is never taken back, the agent goes on at most once and after the
\* turn that asked, and what has ended stays so.
PromisesKept == [][\A x \in Exchanges : AnswerStays(x) /\ GoesOnInTurn(x) /\ EndStays(x)]_vars

=============================================================================
