----------------------------- MODULE LjcaCalls -----------------------------
(***************************************************************************)
(* What ljca_transfer and ljca_transfer_noack promise the drivers of the   *)
(* LJCA bridge, without mutex, flags, pointers or completion handler:      *)
(*  - requests are issued one at a time;                                   *)
(*  - a request is answered at most once;                                  *)
(*  - until a call on a stub times out, cannot be sent or is cut short, a  *)
(*    call succeeds with its own answer; from then on with any answer      *)
(*    still open for that stub;                                            *)
(*  - a call that is cut short succeeds without having been executed.      *)
(* Ljca implements this specification (Ljca!Implements); the models of the *)
(* drivers are built on it.                                                *)
(***************************************************************************)
EXTENDS Naturals

CONSTANTS
  Threads,   \* the threads that call the bridge
  Cmds,      \* the commands
  StubOf,    \* the stub each thread's device is bound to
  MaxCalls,  \* bound: calls a thread makes
  None       \* no data

VARIABLES
  ph,        \* each thread: "idle", "called", "sent" or "answered"
  cmd, kind, n,  \* its call: command, sort of call, number
  buf,       \* contents of its answer buffer: the call whose answer it is
  ret, len,  \* what its last call returned; whether it reported a length
  open,      \* the calls whose answer may still arrive
  dirty      \* stubs on which a call timed out, was not sent or was cut short

callVars == <<cmd, kind, n>>
vars == <<ph, cmd, kind, n, buf, ret, len, open, dirty>>

Ids == Threads \X (1 .. MaxCalls)
Kinds == {"read", "ack", "noack"}
Stub(i) == StubOf[i[1]]
Id(t) == <<t, n[t]>>
Clean(t) == StubOf[t] \notin dirty
Sole(t) == \A u \in Threads : StubOf[u] = StubOf[t] => u = t

TypeOK ==
  /\ ph \in [Threads -> {"idle", "called", "sent", "answered"}]
  /\ cmd \in [Threads -> Cmds \cup {None}]
  /\ kind \in [Threads -> Kinds]
  /\ n \in [Threads -> 0 .. MaxCalls]
  /\ buf \in [Threads -> Ids \cup {None}]
  /\ ret \in [Threads -> {"none", "ok", "error"}]
  /\ len \in [Threads -> {"some", "zero"}]
  /\ open \subseteq Ids
  /\ dirty \subseteq {StubOf[t] : t \in Threads}

Init ==
  /\ ph = [t \in Threads |-> "idle"]
  /\ cmd = [t \in Threads |-> None]
  /\ kind = [t \in Threads |-> "ack"]
  /\ n = [t \in Threads |-> 0]
  /\ buf = [t \in Threads |-> None]
  /\ ret = [t \in Threads |-> "none"]
  /\ len = [t \in Threads |-> "zero"]
  /\ open = {}
  /\ dirty = {}

-----------------------------------------------------------------------------
Begin(t, c, k) ==
  /\ ph[t] = "idle" /\ n[t] < MaxCalls
  /\ cmd' = [cmd EXCEPT ![t] = c]
  /\ kind' = [kind EXCEPT ![t] = k]
  /\ n' = [n EXCEPT ![t] = @ + 1]
  /\ buf' = [buf EXCEPT ![t] = None]

Return(t, r, l) ==
  /\ ph' = [ph EXCEPT ![t] = "idle"]
  /\ ret' = [ret EXCEPT ![t] = r]
  /\ len' = [len EXCEPT ![t] = l]

Call(t, c, k) ==
  /\ Begin(t, c, k)
  /\ ph' = [ph EXCEPT ![t] = "called"]
  /\ ret' = [ret EXCEPT ![t] = "none"]
  /\ len' = [len EXCEPT ![t] = "zero"]
  /\ UNCHANGED <<open, dirty>>

\* Stopped bridge, payload too long, no memory: nothing is sent.
Refuse(t, c, k) ==
  /\ Begin(t, c, k)
  /\ Return(t, "error", "zero")
  /\ UNCHANGED <<open, dirty>>

\* One request at a time, whatever the stubs.
Issue(t) ==
  /\ ph[t] = "called"
  /\ \A u \in Threads : ph[u] \in {"idle", "called"}
  /\ ph' = [ph EXCEPT ![t] = "sent"]
  /\ open' = IF kind[t] = "noack" THEN open ELSE open \cup {Id(t)}
  /\ UNCHANGED <<callVars, buf, ret, len, dirty>>

\* The answer arrives while its own call waits for it.
Answer(t) ==
  /\ Clean(t)
  /\ ph[t] = "sent" /\ Id(t) \in open
  /\ ph' = [ph EXCEPT ![t] = "answered"]
  /\ buf' = [buf EXCEPT ![t] = IF kind[t] = "read" THEN Id(t) ELSE @]
  /\ open' = open \ {Id(t)}
  /\ UNCHANGED <<callVars, ret, len, dirty>>

\* On a dirty stub an answer lands in the buffer of any call of
\* that stub, also one that has returned, or in none.
LateAnswer(i) ==
  /\ i \in open /\ Stub(i) \in dirty
  /\ open' = open \ {i}
  /\ \/ UNCHANGED buf
     \/ \E t \in Threads : StubOf[t] = Stub(i) /\ buf' = [buf EXCEPT ![t] = i]
  /\ UNCHANGED <<ph, callVars, ret, len, dirty>>

\* The firmware does not answer, or the answer is not accepted.
Drop(i) ==
  /\ i \in open
  /\ open' = open \ {i}
  /\ UNCHANGED <<ph, callVars, buf, ret, len, dirty>>

\* What a successful call of t reports as length: another thread that enters
\* a call on the same stub may have wiped it.
Lens(t) ==
  CASE kind[t] # "read" -> {"zero"}
    [] kind[t] = "read" /\ Sole(t) /\ Clean(t) -> {"some"}
    [] OTHER -> {"some", "zero"}

Succeed(t) ==
  /\ \/ ph[t] = "answered"
     \/ ph[t] = "sent" /\ (kind[t] = "noack" \/ ~Clean(t))
  /\ \E l \in Lens(t) : Return(t, "ok", l)
  /\ UNCHANGED <<callVars, buf, open, dirty>>

\* A transfer that failed may have reached the firmware all the same.
Fail(t) ==
  /\ ph[t] # "idle"
  /\ Return(t, "error", "zero")
  /\ dirty' = dirty \cup {StubOf[t]}
  /\ \/ UNCHANGED open
     \/ ph[t] = "called" /\ kind[t] # "noack" /\ open' = open \cup {Id(t)}
  /\ UNCHANGED <<callVars, buf>>

\* The bus took only a part of the command: the call returns success, the
\* firmware executes nothing, and the reported length is undefined.
CutShort(t) ==
  /\ ph[t] = "called"
  /\ \E l \in IF kind[t] = "read" THEN {"some", "zero"} ELSE {"zero"} : Return(t, "ok", l)
  /\ dirty' = dirty \cup {StubOf[t]}
  /\ UNCHANGED <<callVars, buf, open>>

\* The steps of the bridge and the firmware; a driver calls and refusals
\* come back at once.
Bridge ==
  \/ \E t \in Threads : Issue(t) \/ Answer(t) \/ Succeed(t) \/ Fail(t) \/ CutShort(t)
  \/ \E i \in open : LateAnswer(i) \/ Drop(i)

Next ==
  \/ Bridge
  \/ \E t \in Threads, c \in Cmds, k \in Kinds : Call(t, c, k) \/ Refuse(t, c, k)

Spec == Init /\ [][Next]_vars
=============================================================================
