------------------------------ MODULE CallService ------------------------------
(***************************************************************************)
(* What the control service promises to the programs that call it, with no *)
(* threads, wake-ups or timers in sight.  A call is refused or accepted;   *)
(* accepted calls are carried out one at a time, each once, in the order   *)
(* they were accepted; a caller hears a result only for a call that was    *)
(* carried out.  A caller may be told "timeout" at any point after its     *)
(* call was accepted: that answer says nothing about whether the call will *)
(* still be carried out.                                                   *)
(*                                                                         *)
(* ControlDispatch implements this specification.                          *)
(***************************************************************************)
EXTENDS Sequences

CONSTANT Clients        \* the connections, each with one request

VARIABLES
  answer,               \* answer[c]: what the caller of c has been told
  pending,              \* accepted calls not yet carried out, oldest first
  carriedOut            \* calls carried out, oldest first

svars == <<answer, pending, carriedOut>>

Refusals == {"busy", "limit", "rejected", "dropped"}
Answers  == {"none", "reply", "timeout"} \union Refusals

InSeq(c, s) == \E i \in DOMAIN s : s[i] = c

Accepted(c) == InSeq(c, pending) \/ InSeq(c, carriedOut)

Init ==
  /\ answer = [c \in Clients |-> "none"]
  /\ pending = << >>
  /\ carriedOut = << >>

Refuse(c) ==
  /\ answer[c] = "none"
  /\ ~ Accepted(c)
  /\ \E why \in Refusals : answer' = [answer EXCEPT ![c] = why]
  /\ UNCHANGED <<pending, carriedOut>>

Accept(c) ==
  /\ answer[c] = "none"
  /\ ~ Accepted(c)
  /\ pending' = Append(pending, c)
  /\ UNCHANGED <<answer, carriedOut>>

CarryOut ==
  /\ pending # << >>
  /\ carriedOut' = Append(carriedOut, Head(pending))
  /\ pending' = Tail(pending)
  /\ UNCHANGED answer

AnswerResult(c) ==
  /\ answer[c] = "none"
  /\ InSeq(c, carriedOut)
  /\ answer' = [answer EXCEPT ![c] = "reply"]
  /\ UNCHANGED <<pending, carriedOut>>

AnswerTimeout(c) ==
  /\ answer[c] = "none"
  /\ Accepted(c)
  /\ answer' = [answer EXCEPT ![c] = "timeout"]
  /\ UNCHANGED <<pending, carriedOut>>

\* Several unaccepted connections may be turned away at once (the listener closes).
TurnAway ==
  /\ \E S \in SUBSET {c \in Clients : answer[c] = "none" /\ ~ Accepted(c)} :
       answer' = [c \in Clients |-> IF c \in S THEN "dropped" ELSE answer[c]]
  /\ UNCHANGED <<pending, carriedOut>>

Next ==
  \/ CarryOut
  \/ TurnAway
  \/ \E c \in Clients :
       Refuse(c) \/ Accept(c) \/ AnswerResult(c) \/ AnswerTimeout(c)

Spec == Init /\ [][Next]_svars

================================================================================
