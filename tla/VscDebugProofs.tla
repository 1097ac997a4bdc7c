--------------------------- MODULE VscDebugProofs ---------------------------
(***************************************************************************)
(* Proofs about VscDebug, for every finite set of users, every number of   *)
(* commands and pieces and every size of the logs.                         *)
(***************************************************************************)
EXTENDS VscDebug, FiniteSetTheorems, SequenceTheorems, TLAPS

AllCmds == PseCmds \cup AdCmds
Power == "DUMP_POWER_DATA"

-----------------------------------------------------------------------------
(* The inductive invariant, in named parts.                                *)

\* Requests and messages: power data, and only it, comes in numbered pieces.
Requests == [id : 1 .. MaxOps, cmd : AllCmds]
Messages ==
  {m \in [kind : {"answer", "power"}, cmd : AllCmds, id : 1 .. MaxOps, piece : 0 .. Pieces, ok : BOOLEAN] :
     /\ m.kind = "power" <=> m.cmd = Power
     /\ m.kind = "power" /\ m.ok => m.piece >= 1}

QueueInv == req \in Seq(Requests) /\ chan \in Seq(Messages)

\* The users that wait for the mutex fit into the bound.
Lockers == {v \in Users : pc[v] = "lock"}
CountInv == cnt + Cardinality(Lockers) <= MaxOps

\* cmd_mutex: its holder is the one user that sends or waits, and has the
\* newest command.
InSection(u) == pc[u] \in {"send", "wait", "fin"}
LockInv ==
  /\ \A u \in Users : InSection(u) <=> mutex = u
  /\ \A u \in Users : pc[u] # "idle" => op[u] \in AllCmds
  /\ \A u \in Users : pc[u] = "lock" => seen[u] = <<>>
  /\ \A u \in Users : pc[u] = "read" => op[u] \in ReadLater
  /\ \A u \in Users : pc[u] = "devs" => op[u] = Power
  /\ \A u \in Users : IF InSection(u) THEN num[u] = cnt /\ cnt >= 1
                      ELSE num[u] <= cnt /\ (mutex # None => num[u] < cnt)

\* Probe and remove: outside "up" .. "hidden" nobody uses the driver; before
\* "up" nobody has.
InUse == life \in {"up", "completed", "disabled", "hidden"}
LifeInv ==
  /\ ~InUse => \A u \in Users : pc[u] = "idle"
  /\ rx # "idle" => Receiving
  /\ life \in {"off", "enabled", "registered", "failing", "closing", "closed", "freed"} => files = {}
  /\ life \in {"up", "completed", "disabled", "hidden", "drained"} => files = LogFiles
  /\ life \in {"off", "enabled", "registered", "em"} =>
       /\ req = <<>> /\ chan = <<>> /\ rx = "idle" /\ ~done /\ pm_pos = 0
       /\ \A u \in Users : res[u] = "none" /\ seen[u] = <<>>

\* pm_data is written from its start, and stays filled once it was.
Filled == \A p \in 1 .. Pieces : pm[p] # None
FilledInv ==
  /\ \A p \in 1 .. pm_pos : pm[p] # None
  /\ (notif.cmd = Power /\ notif.ok) => Filled
  /\ \A u \in Users :
       (op[u] = Power /\ (pc[u] = "read" \/ (pc[u] = "fin" /\ res[u] = "ok"))) => Filled

\* No command has failed and remove has not begun.
Clean == ~dirty /\ life = "up"

\* What is on its way is for the user that waits: its request, or messages
\* that answer it, or a stored answer.
Waiting == mutex # None /\ pc[mutex] = "wait"

\* d holds the pieces of u's own command, or of later ones.
Whole(d, u) == \A p \in 1 .. Pieces : d[p] = <<num[u], p>> \/ d[p][1] > num[u]

\* The pieces under way complete the data at most once, with the last of them,
\* and only if none is missing.
PowerChan ==
  LET L == Len(chan) IN
  /\ \A j \in 1 .. L - 1 : chan[j].ok
  /\ pm_pos + L <= Pieces
  /\ (chan[L].ok /\ pm_pos + L = Pieces) =>
       /\ \A j \in 1 .. L : chan[j].piece = pm_pos + j
       /\ \A p \in 1 .. pm_pos : pm[p] = <<num[mutex], p>>

ReqInv == req # <<>> =>
  /\ Waiting /\ req = <<Request(mutex)>>
  /\ chan = <<>> /\ rx = "idle" /\ ~done /\ pm_pos = 0

ChanInv == chan # <<>> =>
  /\ Waiting /\ rx = "idle" /\ ~done
  /\ \A j \in 1 .. Len(chan) : chan[j].id = num[mutex] /\ chan[j].cmd = op[mutex]
  /\ IF op[mutex] = Power THEN PowerChan ELSE Len(chan) = 1

StoredInv == (rx = "complete" \/ done) =>
  /\ Waiting /\ req = <<>> /\ chan = <<>> /\ ~(rx = "complete" /\ done)
  /\ notif.cmd = op[mutex]
  /\ IF op[mutex] = Power THEN notif.ok => \A p \in 1 .. Pieces : pm[p] = <<num[mutex], p>>
                          ELSE notif.cont = num[mutex]

PosInv == pm_pos # 0 => Waiting /\ op[mutex] = Power /\ req = <<>> /\ rx = "idle" /\ ~done

\* What a user has been given.
UserPart(u) ==
  /\ (pc[u] = "fin" /\ res[u] = "ok" /\ op[u] = "GET_FW_VER") => got[u] = num[u]
  /\ (op[u] = "GET_TIME" /\ (pc[u] = "read" \/ (pc[u] = "fin" /\ res[u] = "ok"))) => notif.cont >= num[u]
  /\ (op[u] = Power /\ (pc[u] \in {"read", "devs"} \/ (pc[u] = "fin" /\ res[u] = "ok"))) => Whole(pm, u)
  /\ \A s \in DOMAIN seen[u] : Whole(seen[u][s], u)
UserInv == \A u \in Users : UserPart(u)

CleanInv == Clean => ReqInv /\ ChanInv /\ StoredInv /\ PosInv /\ UserInv /\ AnswerOwn

IInv == TypeOK /\ QueueInv /\ CountInv /\ LockInv /\ LifeInv /\ FilledInv /\ CleanInv

-----------------------------------------------------------------------------
(* It holds initially and every action preserves it: one lemma for each    *)
(* action, one step for each part the action can disturb.                  *)

\* Probe finds everything zeroed.
LEMMA IInvInit == Init => IInv
<1> SUFFICES ASSUME Init PROVE IInv
  OBVIOUS
<1>1. TypeOK
  <2>1. notif \in [cmd : PseCmds \cup AdCmds \cup {"LOG_ONOFF", "GET_FW_VER"}, ok : BOOLEAN, cont : 0 .. MaxOps]
    BY BoundsAssumption DEF Init
  <2>2. pm \in Data /\ pm_pos \in 0 .. Pieces - 1
    BY BoundsAssumption DEF Init, Data
  <2>3. pos \in [LogFiles -> 0 .. MaxLog + 1] /\ files \subseteq LogFiles
    BY BoundsAssumption DEF Init
  <2>4. seen \in [Users -> Seq(Data)]
    BY EmptySeq DEF Init
  <2>. QED
    BY <2>1, <2>2, <2>3, <2>4, BoundsAssumption DEF Init, TypeOK
<1>2. QueueInv
  BY EmptySeq DEF Init, QueueInv
<1>3. Lockers = {}
  BY DEF Init, Lockers
<1>4. CountInv
  BY <1>3, FS_EmptySet, BoundsAssumption DEF Init, CountInv
<1>5. LockInv /\ LifeInv
  BY NoneAssumption DEF Init, LockInv, InSection, LifeInv, InUse
<1>6. FilledInv
  BY DEF Init, FilledInv, Power
<1>7. CleanInv
  BY DEF Init, CleanInv, Clean
<1>. QED
  BY <1>1, <1>2, <1>4, <1>5, <1>6, <1>7 DEF IInv

\* Stuttering.
LEMMA StutterKeeps == IInv /\ UNCHANGED vars => IInv'
<1> SUFFICES ASSUME IInv, UNCHANGED vars PROVE IInv'
  OBVIOUS
<1>1. TypeOK' /\ QueueInv' /\ LockInv'
  BY DEF IInv, vars, lifeVars, userVars, rxVars, fwVars, TypeOK, LogFiles, QueueInv, LockInv, InSection
<1>2. CountInv' /\ LifeInv' /\ FilledInv'
  BY DEF IInv, vars, lifeVars, userVars, rxVars, fwVars, CountInv, Lockers, LifeInv, InUse, Receiving,
     Connected, LogFiles, FilledInv, Filled
<1>3. CleanInv'
  BY DEF IInv, vars, lifeVars, userVars, rxVars, fwVars, CleanInv, Clean, Waiting, ReqInv, Request,
     ChanInv, PowerChan, StoredInv, PosInv, UserInv, UserPart, Whole, AnswerOwn
<1>. QED
  BY <1>1, <1>2, <1>3 DEF IInv

\* What a user was given stays right when a step of another leaves the data
\* and the user alone.
SameUser(v) ==
  /\ pc'[v] = pc[v] /\ res'[v] = res[v] /\ op'[v] = op[v] /\ num'[v] = num[v]
  /\ got'[v] = got[v] /\ seen'[v] = seen[v]

LEMMA UserKept ==
  ASSUME NEW v \in Users, UserPart(v), SameUser(v), notif' = notif, pm' = pm
  PROVE  UserPart(v)'
BY DEF UserPart, SameUser, Whole

\* A user that begins an operation does not hold the mutex.
LEMMA BeginKeeps ==
  ASSUME NEW u \in Users, NEW c \in Cmds, IInv, Begin(u, c) PROVE IInv'
<1> USE DEF lifeVars, rxVars, fwVars
<1>1. TypeOK'
  <2>1. LogFiles' = LogFiles
    BY DEF Begin, LogFiles
  <2>2. seen' \in [Users -> Seq(Data)]
    BY EmptySeq DEF IInv, TypeOK, Begin
  <2>. QED
    BY SMTT(30), <2>1, <2>2, BoundsAssumption DEF IInv, TypeOK, Begin, Cmds
<1>2. QueueInv'
  BY DEF IInv, QueueInv, Begin
<1>3. CountInv'
  <2>1. Lockers' = Lockers \cup {u} /\ u \notin Lockers /\ IsFiniteSet(Lockers)
    BY UsersAssumption, FS_Subset DEF IInv, TypeOK, Begin, Lockers
  <2>2. Cardinality(Lockers') = Cardinality(Lockers) + 1 /\ Cardinality(Lockers) \in Nat
    BY <2>1, FS_AddElement, FS_CardinalityType
  <2>. QED
    BY <2>2, BoundsAssumption DEF IInv, TypeOK, Begin, CountInv, Lockers
<1>4. LockInv' /\ u # mutex
  BY NoneAssumption DEF IInv, TypeOK, LockInv, InSection, Begin, Cmds, AllCmds
<1>5. LifeInv'
  BY DEF IInv, TypeOK, LifeInv, InUse, Begin, Receiving, Connected, LogFiles
<1>6. FilledInv'
  BY DEF IInv, TypeOK, FilledInv, Filled, Begin
<1>7. CleanInv'
  <2> SUFFICES ASSUME Clean' PROVE (ReqInv /\ ChanInv /\ StoredInv /\ PosInv /\ UserInv /\ AnswerOwn)'
    BY DEF CleanInv
  <2>1. Clean
    BY DEF Clean, Begin
  <2>2. (ReqInv /\ ChanInv /\ StoredInv /\ PosInv)'
    BY <1>4, <2>1 DEF IInv, TypeOK, CleanInv, Begin, Waiting, ReqInv, Request, ChanInv, PowerChan, StoredInv, PosInv
  <2>3. (UserInv /\ AnswerOwn)'
    <3>1. /\ pc'[u] = "lock" /\ seen'[u] = <<>> /\ notif' = notif /\ pm' = pm
          /\ \A v \in Users \ {u} : SameUser(v)
      BY DEF IInv, TypeOK, Begin, SameUser
    <3>2. UserPart(u)'
      BY <3>1 DEF UserPart
    <3>3. \A v \in Users \ {u} : UserPart(v)'
      BY <2>1, <3>1, UserKept DEF IInv, CleanInv, UserInv
    <3>4. AnswerOwn'
      BY <2>1, <3>1 DEF IInv, CleanInv, AnswerOwn, SameUser, Begin
    <3>. QED
      BY <3>2, <3>3, <3>4 DEF UserInv
  <2>. QED
    BY <2>2, <2>3
<1>. QED
  BY <1>1, <1>2, <1>3, <1>4, <1>5, <1>6, <1>7 DEF IInv

\* Nothing is under way when the mutex is free, so that a new command starts
\* from nothing.
LEMMA LockKeeps ==
  ASSUME NEW u \in Users, IInv, Lock(u) PROVE IInv'
<1> USE DEF lifeVars, rxVars, fwVars
<1>1. /\ Lockers' = Lockers \ {u} /\ u \in Lockers /\ IsFiniteSet(Lockers)
      /\ Cardinality(Lockers') = Cardinality(Lockers) - 1 /\ Cardinality(Lockers) \in Nat
      /\ Cardinality(Lockers') \in Nat
  <2>1. Lockers' = Lockers \ {u} /\ u \in Lockers /\ IsFiniteSet(Lockers)
    BY UsersAssumption, FS_Subset DEF IInv, TypeOK, Lock, Lockers
  <2>. QED
    BY <2>1, FS_RemoveElement, FS_CardinalityType
<1>2. CountInv' /\ cnt + 1 <= MaxOps
  BY <1>1, BoundsAssumption DEF IInv, TypeOK, Lock, CountInv
<1>3. TypeOK'
  <2>1. LogFiles' = LogFiles
    BY DEF Lock, LogFiles
  <2>2. cnt' \in 0 .. MaxOps /\ num' \in [Users -> 0 .. MaxOps]
    BY <1>2, BoundsAssumption DEF IInv, TypeOK, Lock
  <2>. QED
    BY ZenonT(60), <2>1, <2>2 DEF IInv, TypeOK, Lock
<1>4. QueueInv'
  BY DEF IInv, QueueInv, Lock
<1>5. LockInv'
  BY NoneAssumption DEF IInv, TypeOK, LockInv, InSection, Lock
<1>6. LifeInv' /\ FilledInv'
  BY DEF IInv, TypeOK, LifeInv, InUse, Lock, Receiving, Connected, LogFiles, FilledInv, Filled
<1>7. CleanInv'
  <2> SUFFICES ASSUME Clean' PROVE (ReqInv /\ ChanInv /\ StoredInv /\ PosInv /\ UserInv /\ AnswerOwn)'
    BY DEF CleanInv
  <2>1. Clean
    BY DEF Clean, Lock
  <2>2. (ReqInv /\ ChanInv /\ StoredInv /\ PosInv)'
    BY <2>1 DEF IInv, TypeOK, CleanInv, Lock, Waiting, ReqInv, ChanInv, StoredInv, PosInv
  <2>3. (UserInv /\ AnswerOwn)'
    <3>1. /\ pc[u] = "lock" /\ pc'[u] = "send" /\ seen' = seen /\ notif' = notif /\ pm' = pm
          /\ \A v \in Users \ {u} : SameUser(v)
      BY DEF IInv, TypeOK, Lock, SameUser
    <3>2. UserPart(u)'
      <4>1. seen[u] = <<>>
        BY <3>1 DEF IInv, LockInv
      <4>. QED
        BY <3>1, <4>1 DEF UserPart
    <3>3. \A v \in Users \ {u} : UserPart(v)'
      BY <2>1, <3>1, UserKept DEF IInv, CleanInv, UserInv
    <3>4. AnswerOwn'
      BY <2>1, <3>1 DEF IInv, CleanInv, AnswerOwn, SameUser, Lock
    <3>. QED
      BY <3>2, <3>3, <3>4 DEF UserInv
  <2>. QED
    BY <2>2, <2>3
<1>. QED
  BY <1>2, <1>3, <1>4, <1>5, <1>6, <1>7 DEF IInv

\* The request of the mutex's holder is the only thing under way.
LEMMA SendKeeps ==
  ASSUME NEW u \in Users, IInv, Send(u) PROVE IInv'
<1> USE DEF lifeVars, rxVars, fwVars
<1>1. TypeOK'
  <2>1. LogFiles' = LogFiles
    BY DEF Send, LogFiles
  <2>. QED
    BY <2>1 DEF IInv, TypeOK, Send
<1>2. QueueInv'
  <2>1. Request(u) \in Requests
    BY BoundsAssumption DEF IInv, TypeOK, LockInv, InSection, Send, Request, Requests
  <2>. QED
    BY <2>1, AppendProperties DEF IInv, QueueInv, Send
<1>3. CountInv'
  <2>1. Lockers' = Lockers
    BY DEF IInv, TypeOK, Send, Lockers
  <2>. QED
    BY <2>1 DEF IInv, CountInv, Send
<1>4. LockInv' /\ mutex = u /\ u # None
  BY NoneAssumption DEF IInv, TypeOK, LockInv, InSection, Send
<1>5. LifeInv' /\ FilledInv'
  BY DEF IInv, TypeOK, LifeInv, InUse, Send, Receiving, Connected, LogFiles, FilledInv, Filled
<1>6. CleanInv'
  <2> SUFFICES ASSUME Clean' PROVE (ReqInv /\ ChanInv /\ StoredInv /\ PosInv /\ UserInv /\ AnswerOwn)'
    BY DEF CleanInv
  <2>1. Clean /\ ~Waiting
    BY <1>4 DEF Clean, Send, Waiting
  <2>2. req = <<>> /\ chan = <<>> /\ rx = "idle" /\ ~done /\ pm_pos = 0
    BY <2>1 DEF IInv, TypeOK, CleanInv, ReqInv, ChanInv, StoredInv, PosInv
  <2>3. req' = <<Request(u)>> /\ Waiting' /\ Request(mutex)' = Request(u)
    BY <1>4, <2>2 DEF IInv, TypeOK, Send, Waiting, Request
  <2>4. (ReqInv /\ ChanInv /\ StoredInv /\ PosInv)'
    BY <2>2, <2>3 DEF Send, ReqInv, ChanInv, StoredInv, PosInv
  <2>5. (UserInv /\ AnswerOwn)'
    <3>1. /\ pc'[u] = "wait" /\ num' = num /\ seen' = seen /\ notif' = notif /\ pm' = pm
          /\ \A v \in Users \ {u} : SameUser(v)
      BY DEF IInv, TypeOK, Send, SameUser
    <3>2. UserPart(u)'
      BY <2>1, <3>1 DEF IInv, CleanInv, UserInv, UserPart, Whole
    <3>3. \A v \in Users \ {u} : UserPart(v)'
      BY <2>1, <3>1, UserKept DEF IInv, CleanInv, UserInv
    <3>4. AnswerOwn'
      BY <2>1, <3>1 DEF IInv, CleanInv, AnswerOwn, SameUser, Send
    <3>. QED
      BY <3>2, <3>3, <3>4 DEF UserInv
  <2>. QED
    BY <2>4, <2>5
<1>. QED
  BY <1>1, <1>2, <1>3, <1>4, <1>5, <1>6 DEF IInv

\* A send that failed leaves nothing under way, or is one of the failures that
\* CleanInv sets aside.
LEMMA SendFailsKeeps ==
  ASSUME NEW u \in Users, IInv, SendFails(u) PROVE IInv'
<1> USE DEF lifeVars, rxVars, fwVars, Result
<1>1. TypeOK'
  <2>1. LogFiles' = LogFiles
    BY DEF SendFails, LogFiles
  <2>2. dirty' \in BOOLEAN
    BY DEF IInv, TypeOK, SendFails
  <2>3. pc' \in [Users -> {"idle", "lock", "send", "wait", "fin", "read", "devs"}] /\ res' \in [Users -> {"none", "ok", "error"}]
    BY DEF IInv, TypeOK, SendFails
  <2>. QED
    BY <2>1, <2>2, <2>3 DEF IInv, TypeOK, SendFails
<1>2. QueueInv'
  <2>1. Request(u) \in Requests
    BY BoundsAssumption DEF IInv, TypeOK, LockInv, InSection, SendFails, Request, Requests
  <2>. QED
    <3>1. Append(req, Request(u)) \in Seq(Requests)
      BY <2>1, AppendProperties DEF IInv, QueueInv
    <3>2. req' = req \/ req' = Append(req, Request(u))
      BY DEF SendFails
    <3>. QED
      BY <3>1, <3>2 DEF IInv, QueueInv, SendFails
<1>3. CountInv'
  <2>1. Lockers' = Lockers
    BY DEF IInv, TypeOK, SendFails, Lockers
  <2>. QED
    BY <2>1 DEF IInv, CountInv, SendFails
<1>4. LockInv' /\ mutex = u /\ u # None
  BY NoneAssumption DEF IInv, TypeOK, LockInv, InSection, SendFails
<1>5. LifeInv'
  BY DEF IInv, TypeOK, LifeInv, InUse, SendFails, Receiving, Connected, LogFiles
<1>6. FilledInv'
  BY DEF IInv, TypeOK, FilledInv, Filled, SendFails
<1>7. CleanInv'
  <2> SUFFICES ASSUME Clean' PROVE (ReqInv /\ ChanInv /\ StoredInv /\ PosInv /\ UserInv /\ AnswerOwn)'
    BY DEF CleanInv
  <2>1. Clean /\ ~Waiting /\ req' = req
    BY <1>4 DEF Clean, SendFails, Waiting
  <2>2. req = <<>> /\ chan = <<>> /\ rx = "idle" /\ ~done /\ pm_pos = 0
    BY <2>1 DEF IInv, TypeOK, CleanInv, ReqInv, ChanInv, StoredInv, PosInv
  <2>3. (ReqInv /\ ChanInv /\ StoredInv /\ PosInv)'
    BY <2>1, <2>2 DEF SendFails, ReqInv, ChanInv, StoredInv, PosInv
  <2>4. (UserInv /\ AnswerOwn)'
    <3>1. /\ pc'[u] = "fin" /\ res'[u] = "error" /\ num' = num /\ seen' = seen /\ notif' = notif /\ pm' = pm
          /\ \A v \in Users \ {u} : SameUser(v)
      BY DEF IInv, TypeOK, SendFails, SameUser
    <3>2. UserPart(u)'
      BY <2>1, <3>1 DEF IInv, CleanInv, UserInv, UserPart, Whole
    <3>3. \A v \in Users \ {u} : UserPart(v)'
      BY <2>1, <3>1, UserKept DEF IInv, CleanInv, UserInv
    <3>4. AnswerOwn'
      BY <2>1, <3>1 DEF IInv, CleanInv, AnswerOwn, SameUser, SendFails
    <3>. QED
      BY <3>2, <3>3, <3>4 DEF UserInv
  <2>. QED
    BY <2>3, <2>4
<1>. QED
  BY <1>1, <1>2, <1>3, <1>4, <1>5, <1>6, <1>7 DEF IInv

\* After a timeout the answer may still come: the state is no longer clean.
LEMMA TimeoutKeeps ==
  ASSUME NEW u \in Users, IInv, Timeout(u) PROVE IInv'
<1> USE DEF lifeVars, rxVars, fwVars, Result
<1>1. TypeOK' /\ QueueInv'
  <2>1. LogFiles' = LogFiles
    BY DEF Timeout, LogFiles
  <2>. QED
    BY <2>1 DEF IInv, TypeOK, Timeout, QueueInv
<1>2. CountInv'
  <2>1. Lockers' = Lockers
    BY DEF IInv, TypeOK, Timeout, Lockers
  <2>. QED
    BY <2>1 DEF IInv, CountInv, Timeout
<1>3. LockInv'
  BY NoneAssumption DEF IInv, TypeOK, LockInv, InSection, Timeout
<1>4. LifeInv' /\ FilledInv'
  BY DEF IInv, TypeOK, LifeInv, InUse, Timeout, Receiving, Connected, LogFiles, FilledInv, Filled
<1>5. CleanInv'
  BY DEF Timeout, CleanInv, Clean
<1>. QED
  BY <1>1, <1>2, <1>3, <1>4, <1>5 DEF IInv

\* The stored answer is the one to the command of the user that wakes up.
LEMMA WakeKeeps ==
  ASSUME NEW u \in Users, IInv, Wake(u) PROVE IInv'
<1> USE DEF lifeVars, rxVars, fwVars, Result
<1>1. TypeOK'
  <2>1. LogFiles' = LogFiles
    BY DEF Wake, LogFiles
  <2>2. got' \in [Users -> 0 .. MaxOps]
    BY DEF IInv, TypeOK, Wake
  <2>3. pc' \in [Users -> {"idle", "lock", "send", "wait", "fin", "read", "devs"}] /\ res' \in [Users -> {"none", "ok", "error"}]
    BY DEF IInv, TypeOK, Wake
  <2>. QED
    BY ZenonT(60), <2>1, <2>2, <2>3 DEF IInv, TypeOK, Wake
<1>2. QueueInv'
  BY DEF IInv, QueueInv, Wake
<1>3. CountInv'
  <2>1. Lockers' = Lockers
    BY DEF IInv, TypeOK, Wake, Lockers
  <2>. QED
    BY <2>1 DEF IInv, CountInv, Wake
<1>4. LockInv' /\ mutex = u /\ u # None
  BY NoneAssumption DEF IInv, TypeOK, LockInv, InSection, Wake
<1>5. LifeInv'
  BY DEF IInv, TypeOK, LifeInv, InUse, Wake, Receiving, Connected, LogFiles
<1>6. FilledInv'
  BY DEF IInv, TypeOK, FilledInv, Filled, Wake
<1>7. CleanInv'
  <2> SUFFICES ASSUME Clean' PROVE (ReqInv /\ ChanInv /\ StoredInv /\ PosInv /\ UserInv /\ AnswerOwn)'
    BY DEF CleanInv
  <2>1. Clean
    BY DEF Clean, Wake
  <2>2. /\ req = <<>> /\ chan = <<>> /\ rx = "idle" /\ pm_pos = 0
        /\ op[u] # Power => notif.cont = num[u]
        /\ op[u] = Power /\ notif.ok => \A p \in 1 .. Pieces : pm[p] = <<num[u], p>>
    BY <1>4, <2>1 DEF IInv, TypeOK, CleanInv, StoredInv, PosInv, Wake
  <2>3. (ReqInv /\ ChanInv /\ StoredInv /\ PosInv)'
    BY <2>2 DEF Wake, ReqInv, ChanInv, StoredInv, PosInv
  <2>4. UserInv'
    <3> SUFFICES ASSUME NEW v \in Users
                 PROVE  /\ (pc[v] = "fin" /\ res[v] = "ok" /\ op[v] = "GET_FW_VER" => got[v] = num[v])'
                        /\ (op[v] = "GET_TIME" /\ (pc[v] = "read" \/ (pc[v] = "fin" /\ res[v] = "ok")) => notif.cont >= num[v])'
                        /\ (op[v] = Power /\ (pc[v] \in {"read", "devs"} \/ (pc[v] = "fin" /\ res[v] = "ok")) => Whole(pm, v))'
                        /\ (\A s \in DOMAIN seen[v] : Whole(seen[v][s], v))'
      BY DEF UserInv, UserPart
    <3>1. CASE v # u
      <4>1. SameUser(v) /\ notif' = notif /\ pm' = pm
        BY <3>1 DEF IInv, TypeOK, Wake, SameUser
      <4>2. UserPart(v)'
        BY <2>1, <4>1, UserKept DEF IInv, CleanInv, UserInv
      <4>. QED
        BY <4>2 DEF UserPart
    <3>2. CASE v = u
      <4>1. pc'[u] = "fin" /\ op' = op /\ num' = num /\ notif' = notif /\ pm' = pm /\ seen' = seen
        BY DEF IInv, TypeOK, Wake
      <4>2. res'[u] = "ok" => /\ notif.ok /\ notif.cmd = op[u]
                              /\ op[u] = "GET_FW_VER" => got'[u] = notif.cont
        BY DEF IInv, TypeOK, Wake, CopiedLocked
      <4>3. notif.cont \in Nat /\ num[u] \in Nat
        BY DEF IInv, TypeOK
      <4>. QED
        BY <2>1, <2>2, <3>2, <4>1, <4>2, <4>3 DEF IInv, CleanInv, UserInv, UserPart, Whole, Power
    <3>. QED
      BY <3>1, <3>2
  <2>5. AnswerOwn'
    BY <2>1 DEF IInv, TypeOK, CleanInv, Wake, AnswerOwn
  <2>. QED
    BY <2>3, <2>4, <2>5
<1>. QED
  BY <1>1, <1>2, <1>3, <1>4, <1>5, <1>6, <1>7 DEF IInv

\* The mutex is released with nothing under way, and what the user was given
\* is its own answer.
LEMMA UnlockKeeps ==
  ASSUME NEW u \in Users, IInv, Unlock(u) PROVE IInv'
<1> USE DEF lifeVars, rxVars, fwVars
<1>1. TypeOK'
  <2>1. LogFiles' = LogFiles
    BY DEF Unlock, LogFiles
  <2>2. res' \in [Users -> {"none", "ok", "error"}]
    BY DEF IInv, TypeOK, Unlock, Reported
  <2>3. pc' \in [Users -> {"idle", "lock", "send", "wait", "fin", "read", "devs"}]
    BY DEF IInv, TypeOK, Unlock
  <2>. QED
    BY <2>1, <2>2, <2>3 DEF IInv, TypeOK, Unlock
<1>2. QueueInv'
  BY DEF IInv, QueueInv, Unlock
<1>3. CountInv'
  <2>1. Lockers' = Lockers
    BY DEF IInv, TypeOK, Unlock, Lockers
  <2>. QED
    BY <2>1 DEF IInv, CountInv, Unlock
<1>4. LockInv' /\ mutex = u /\ u # None
  BY NoneAssumption DEF IInv, TypeOK, LockInv, InSection, Unlock
<1>5. LifeInv'
  BY DEF IInv, TypeOK, LifeInv, InUse, Unlock, Receiving, Connected, LogFiles
<1>6. FilledInv'
  BY DEF IInv, TypeOK, FilledInv, Filled, Unlock
<1>7. CleanInv'
  <2> SUFFICES ASSUME Clean' PROVE (ReqInv /\ ChanInv /\ StoredInv /\ PosInv /\ UserInv /\ AnswerOwn)'
    BY DEF CleanInv
  <2>1. Clean /\ ~Waiting
    BY <1>4 DEF Clean, Unlock, Waiting
  <2>2. req = <<>> /\ chan = <<>> /\ rx = "idle" /\ ~done /\ pm_pos = 0
    BY <2>1 DEF IInv, TypeOK, CleanInv, ReqInv, ChanInv, StoredInv, PosInv
  <2>3. (ReqInv /\ ChanInv /\ StoredInv /\ PosInv)'
    BY <2>2 DEF Unlock, ReqInv, ChanInv, StoredInv, PosInv
  <2>4. UserInv'
    BY <2>1 DEF IInv, TypeOK, CleanInv, Unlock, UserInv, UserPart, Whole
  <2>5. AnswerOwn'
    BY <2>1 DEF IInv, TypeOK, CleanInv, Unlock, Reported, ReadLater, CopiedLocked, UserInv, UserPart, AnswerOwn, Clean
  <2>. QED
    BY <2>3, <2>4, <2>5
<1>. QED
  BY <1>1, <1>2, <1>3, <1>4, <1>5, <1>6, <1>7 DEF IInv

\* The time that is read without the mutex is that of the user's command or of
\* a later one.
LEMMA ReadAnswerKeeps ==
  ASSUME NEW u \in Users, IInv, ReadAnswer(u) PROVE IInv'
<1> USE DEF lifeVars, rxVars, fwVars
<1>1. TypeOK'
  <2>1. LogFiles' = LogFiles
    BY DEF ReadAnswer, LogFiles
  <2>. QED
    BY <2>1 DEF IInv, TypeOK, ReadAnswer
<1>2. QueueInv'
  BY DEF IInv, QueueInv, ReadAnswer
<1>3. CountInv'
  <2>1. Lockers' = Lockers
    BY DEF IInv, TypeOK, ReadAnswer, Lockers
  <2>. QED
    BY <2>1 DEF IInv, CountInv, ReadAnswer
<1>4. LockInv' /\ mutex # u
  BY NoneAssumption DEF IInv, TypeOK, LockInv, InSection, ReadAnswer
<1>5. LifeInv' /\ FilledInv'
  BY DEF IInv, TypeOK, LifeInv, InUse, ReadAnswer, Receiving, Connected, LogFiles, FilledInv, Filled
<1>6. CleanInv'
  <2> SUFFICES ASSUME Clean' PROVE (ReqInv /\ ChanInv /\ StoredInv /\ PosInv /\ UserInv /\ AnswerOwn)'
    BY DEF CleanInv
  <2>1. Clean
    BY DEF Clean, ReadAnswer
  <2>2. (ReqInv /\ ChanInv /\ StoredInv /\ PosInv)'
    BY <1>4, <2>1 DEF IInv, TypeOK, CleanInv, ReadAnswer, Waiting, ReqInv, Request, ChanInv, PowerChan, StoredInv, PosInv
  <2>3. UserInv'
    BY <2>1 DEF IInv, TypeOK, CleanInv, ReadAnswer, UserInv, UserPart, Whole
  <2>4. op[u] = "GET_TIME"
    BY DEF IInv, LockInv, ReadAnswer, ReadLater, CopiedLocked
  <2>5. AnswerOwn'
    BY <2>1, <2>4 DEF IInv, TypeOK, CleanInv, ReadAnswer, UserInv, UserPart, AnswerOwn, Clean
  <2>. QED
    BY <2>2, <2>3, <2>5
<1>. QED
  BY <1>1, <1>2, <1>3, <1>4, <1>5, <1>6 DEF IInv

\* The first pass over the power data sees pieces of the user's command or of
\* later ones ...
LEMMA dump_power_state_data_keeps ==
  ASSUME NEW u \in Users, IInv, dump_power_state_data(u) PROVE IInv'
<1> USE DEF lifeVars, rxVars, fwVars
<1>1. TypeOK'
  <2>1. LogFiles' = LogFiles
    BY DEF dump_power_state_data, LogFiles
  <2>2. <<pm>> \in Seq(Data)
    BY DEF IInv, TypeOK
  <2>3. seen' \in [Users -> Seq(Data)]
    BY <2>2 DEF IInv, TypeOK, dump_power_state_data
  <2>. QED
    BY <2>1, <2>3 DEF IInv, TypeOK, dump_power_state_data
<1>2. QueueInv'
  BY DEF IInv, QueueInv, dump_power_state_data
<1>3. CountInv'
  <2>1. Lockers' = Lockers
    BY DEF IInv, TypeOK, dump_power_state_data, Lockers
  <2>. QED
    BY <2>1 DEF IInv, CountInv, dump_power_state_data
<1>4. LockInv' /\ mutex # u
  BY NoneAssumption DEF IInv, TypeOK, LockInv, InSection, dump_power_state_data, Power
<1>5. LifeInv' /\ FilledInv'
  BY DEF IInv, TypeOK, LifeInv, InUse, dump_power_state_data, Receiving, Connected, LogFiles, FilledInv, Filled
<1>6. CleanInv'
  <2> SUFFICES ASSUME Clean' PROVE (ReqInv /\ ChanInv /\ StoredInv /\ PosInv /\ UserInv /\ AnswerOwn)'
    BY DEF CleanInv
  <2>1. Clean
    BY DEF Clean, dump_power_state_data
  <2>2. (ReqInv /\ ChanInv /\ StoredInv /\ PosInv)'
    BY <1>4, <2>1 DEF IInv, TypeOK, CleanInv, dump_power_state_data, Waiting, ReqInv, Request, ChanInv, PowerChan, StoredInv, PosInv
  <2>3. seen'[u] = <<pm>> /\ \A v \in Users \ {u} : seen'[v] = seen[v]
    BY DEF IInv, TypeOK, dump_power_state_data
  <2>4. \A s \in DOMAIN seen'[u] : seen'[u][s] = pm
    BY <2>3
  <2>5. Whole(pm, u)
    BY <2>1 DEF IInv, CleanInv, UserInv, UserPart, LockInv, dump_power_state_data, Power
  <2>6. UserInv'
    <3>1. /\ pc[u] = "read" /\ op[u] = Power /\ op' = op /\ num' = num /\ notif' = notif /\ pm' = pm
          /\ pc'[u] = "devs" /\ \A v \in Users \ {u} : SameUser(v)
      BY <2>3 DEF IInv, TypeOK, dump_power_state_data, SameUser, Power
    <3>2. UserPart(u)'
      BY <2>4, <2>5, <3>1 DEF UserPart, Whole, Power
    <3>3. \A v \in Users \ {u} : UserPart(v)'
      BY <2>1, <3>1, UserKept DEF IInv, CleanInv, UserInv
    <3>. QED
      BY <3>2, <3>3 DEF UserInv
  <2>7. AnswerOwn'
    BY <2>1 DEF IInv, TypeOK, CleanInv, LockInv, dump_power_state_data, AnswerOwn, Power
  <2>. QED
    BY <2>2, <2>6, <2>7
<1>. QED
  BY <1>1, <1>2, <1>3, <1>4, <1>5, <1>6 DEF IInv

\* ... and so does the second.
LEMMA dump_dev_power_data_keeps ==
  ASSUME NEW u \in Users, IInv, dump_dev_power_data(u) PROVE IInv'
<1> USE DEF lifeVars, rxVars, fwVars
<1>1. TypeOK'
  <2>1. LogFiles' = LogFiles
    BY DEF dump_dev_power_data, LogFiles
  <2>2. Append(seen[u], pm) \in Seq(Data)
    BY AppendProperties DEF IInv, TypeOK
  <2>3. seen' \in [Users -> Seq(Data)]
    BY <2>2 DEF IInv, TypeOK, dump_dev_power_data
  <2>. QED
    BY SMTT(30), <2>1, <2>3 DEF IInv, TypeOK, dump_dev_power_data
<1>2. QueueInv'
  BY DEF IInv, QueueInv, dump_dev_power_data
<1>3. CountInv'
  <2>1. Lockers' = Lockers
    BY DEF IInv, TypeOK, dump_dev_power_data, Lockers
  <2>. QED
    BY <2>1 DEF IInv, CountInv, dump_dev_power_data
<1>4. LockInv' /\ mutex # u
  BY NoneAssumption DEF IInv, TypeOK, LockInv, InSection, dump_dev_power_data, Power
<1>5. LifeInv' /\ FilledInv'
  BY DEF IInv, TypeOK, LifeInv, InUse, dump_dev_power_data, Receiving, Connected, LogFiles, FilledInv, Filled
<1>6. CleanInv'
  <2> SUFFICES ASSUME Clean' PROVE (ReqInv /\ ChanInv /\ StoredInv /\ PosInv /\ UserInv /\ AnswerOwn)'
    BY DEF CleanInv
  <2>1. Clean
    BY DEF Clean, dump_dev_power_data
  <2>2. (ReqInv /\ ChanInv /\ StoredInv /\ PosInv)'
    BY <1>4, <2>1 DEF IInv, TypeOK, CleanInv, dump_dev_power_data, Waiting, ReqInv, Request, ChanInv, PowerChan, StoredInv, PosInv
  <2>3. seen'[u] = Append(seen[u], pm) /\ \A v \in Users \ {u} : seen'[v] = seen[v]
    BY DEF IInv, TypeOK, dump_dev_power_data
  <2>4. \A s \in DOMAIN seen'[u] : seen'[u][s] = pm \/ (s \in DOMAIN seen[u] /\ seen'[u][s] = seen[u][s])
    <3>1. seen[u] \in Seq(Data) /\ pm \in Data
      BY DEF IInv, TypeOK
    <3>. QED
      BY <2>3, <3>1, AppendProperties, LenProperties
  <2>5. Whole(pm, u)
    BY <2>1 DEF IInv, CleanInv, UserInv, UserPart, LockInv, dump_dev_power_data, Power
  <2>6. UserInv'
    <3>1. \A v \in Users : \A s \in DOMAIN seen'[v] : Whole(seen'[v][s], v)
      BY <2>1, <2>3, <2>4, <2>5 DEF IInv, CleanInv, UserInv, UserPart
    <3>2. num' = num /\ pm' = pm /\ notif' = notif /\ got' = got /\ res' = res /\ op' = op
      BY DEF dump_dev_power_data
    <3>3. \A v \in Users : \A s \in DOMAIN seen'[v] : Whole(seen[v][s], v)'
      BY <3>1, <3>2 DEF Whole
    <3>4. \A v \in Users : pc'[v] = IF v = u THEN "idle" ELSE pc[v]
      BY DEF IInv, TypeOK, dump_dev_power_data
    <3>5. \A v \in Users : Whole(pm, v) => Whole(pm, v)'
      BY <3>2 DEF Whole
    <3>. QED
      BY <2>1, <3>2, <3>3, <3>4, <3>5 DEF IInv, CleanInv, UserInv, UserPart
  <2>7. AnswerOwn'
    BY <2>1 DEF IInv, TypeOK, CleanInv, LockInv, dump_dev_power_data, AnswerOwn, Power
  <2>. QED
    BY <2>2, <2>6, <2>7
<1>. QED
  BY <1>1, <1>2, <1>3, <1>4, <1>5, <1>6 DEF IInv

\* What the callback takes from the queue.
LEMMA TakeFacts ==
  ASSUME IInv, Take
  PROVE  /\ Len(chan) \in Nat /\ Len(chan) >= 1
         /\ chan[1] = Head(chan) /\ Head(chan) \in Messages
         /\ chan' \in Seq(Messages) /\ Len(chan') = Len(chan) - 1
         /\ \A j \in 1 .. Len(chan) - 1 : chan'[j] = chan[j + 1]
         /\ Len(chan) = 1 => chan' = <<>>
<1>1. chan \in Seq(Messages) /\ chan # <<>> /\ chan' = Tail(chan)
  BY DEF IInv, QueueInv, Take
<1>2. Len(chan) \in Nat /\ Len(chan) >= 1
  BY <1>1, EmptySeq
<1>3. /\ Head(chan) \in Messages /\ Tail(chan) \in Seq(Messages)
      /\ Len(Tail(chan)) = Len(chan) - 1
      /\ \A i \in 1 .. Len(Tail(chan)) : Tail(chan)[i] = chan[i + 1]
  BY <1>1, HeadTailProperties
<1>4. chan[1] = Head(chan)
  BY <1>1
<1>5. Len(chan) = 1 => Tail(chan) = <<>>
  <2> DEFINE t == Tail(chan)
  <2>1. t \in Seq(Messages) /\ Len(t) = Len(chan) - 1
    BY <1>3
  <2>2. t # <<>> => Len(t) \in Nat \ {0}
    BY <2>1, EmptySeq
  <2> HIDE DEF t
  <2>. QED
    BY <1>2, <2>1, <2>2 DEF t
<1>. QED
  BY <1>1, <1>2, <1>3, <1>4, <1>5

\* A message that is lost: what is left of the power data is not complete.
LEMMA RecvFailsKeeps == IInv /\ RecvFails => IInv'
<1> SUFFICES ASSUME IInv, RecvFails PROVE IInv'
  OBVIOUS
<1> USE DEF lifeVars, userVars, rxVars
<1>1. TypeOK'
  <2>1. LogFiles' = LogFiles
    BY DEF RecvFails, LogFiles
  <2>. QED
    BY <2>1 DEF IInv, TypeOK, RecvFails
<1>2. Take
  BY DEF RecvFails
<1>3. QueueInv' /\ CountInv' /\ LockInv'
  BY <1>2, TakeFacts DEF IInv, QueueInv, CountInv, Lockers, LockInv, InSection, RecvFails
<1>4. LifeInv' /\ FilledInv'
  BY DEF IInv, LifeInv, InUse, RecvFails, Take, Receiving, Connected, LogFiles, FilledInv, Filled
<1>5. CleanInv'
  <2> SUFFICES ASSUME Clean' PROVE (ReqInv /\ ChanInv /\ StoredInv /\ PosInv /\ UserInv /\ AnswerOwn)'
    BY DEF CleanInv
  <2>1. Clean
    BY DEF Clean, RecvFails
  <2>2. /\ chan # <<>> /\ Waiting /\ rx = "idle" /\ ~done /\ req = <<>>
        /\ \A j \in 1 .. Len(chan) : chan[j].id = num[mutex] /\ chan[j].cmd = op[mutex]
        /\ IF op[mutex] = Power THEN PowerChan ELSE Len(chan) = 1
    BY <1>2, <2>1 DEF IInv, CleanInv, ReqInv, ChanInv, Take
  <2>3. chan' # <<>> => op[mutex] = Power /\ Len(chan) > 1
    BY <1>2, <2>2, TakeFacts
  <2>4. PowerChan => PowerChan'
    <3>1. pm_pos \in Nat /\ pm_pos' = pm_pos /\ Len(chan) \in Nat
      BY <1>2, TakeFacts, BoundsAssumption DEF IInv, TypeOK, RecvFails
    <3> HAVE PowerChan
    <3>2. pm_pos + Len(chan) <= Pieces /\ \A j \in 1 .. Len(chan) - 1 : chan[j].ok
      BY DEF PowerChan
    <3>3. \A j \in 1 .. Len(chan') - 1 : chan'[j].ok
      BY <1>2, <3>1, <3>2, TakeFacts
    <3>4. pm_pos' + Len(chan') < Pieces
      BY <1>2, <3>1, <3>2, TakeFacts, BoundsAssumption
    <3>. QED
      BY <1>2, <3>1, <3>3, <3>4, TakeFacts, BoundsAssumption DEF PowerChan
  <2>5. \A j \in 1 .. Len(chan') : chan'[j].id = num[mutex] /\ chan'[j].cmd = op[mutex]
    BY <1>2, <2>2, TakeFacts
  <2>6. (ReqInv /\ ChanInv)'
    BY <2>2, <2>3, <2>4, <2>5 DEF RecvFails, ReqInv, ChanInv, Waiting
  <2>7. (StoredInv /\ PosInv)'
    BY <2>1, <2>2 DEF IInv, CleanInv, RecvFails, StoredInv, PosInv, Waiting
  <2>8. (UserInv /\ AnswerOwn)'
    BY <2>1 DEF IInv, CleanInv, RecvFails, UserInv, UserPart, Whole, AnswerOwn
  <2>. QED
    BY <2>6, <2>7, <2>8
<1>. QED
  BY <1>1, <1>3, <1>4, <1>5 DEF IInv

\* A piece of log moves a file position, up to one beyond the limit.
LEMMA RxLogKeeps ==
  ASSUME NEW f \in LogFiles, IInv, RxLog(f) PROVE IInv'
<1> USE DEF lifeVars, userVars, fwVars
<1>1. TypeOK'
  <2>1. LogFiles' = LogFiles
    BY DEF RxLog, LogFiles
  <2>2. pos' \in [LogFiles -> 0 .. MaxLog + 1]
    <3>1. pos \in [LogFiles -> 0 .. MaxLog + 1] /\ MaxLog \in Nat
      BY BoundsAssumption DEF IInv, TypeOK
    <3>2. CASE pos[f] < MaxLog /\ pos' = [pos EXCEPT ![f] = @ + 1 + 1]
      <4>1. pos[f] + 1 + 1 \in 0 .. MaxLog + 1
        BY <3>1, <3>2
      <4>. QED
        BY <3>1, <3>2, <4>1
    <3>. QED
      BY <3>1, <3>2 DEF RxLog
  <2>. QED
    BY <2>1, <2>2 DEF IInv, TypeOK, RxLog
<1>2. QueueInv' /\ CountInv' /\ LockInv'
  BY DEF IInv, QueueInv, CountInv, Lockers, LockInv, InSection, RxLog
<1>3. LifeInv' /\ FilledInv'
  BY DEF IInv, LifeInv, InUse, RxLog, Receiving, Connected, LogFiles, FilledInv, Filled
<1>4. CleanInv'
  BY DEF IInv, RxLog, CleanInv, Clean, Waiting, ReqInv, Request, ChanInv, PowerChan, StoredInv, PosInv,
     UserInv, UserPart, Whole, AnswerOwn
<1>. QED
  BY <1>1, <1>2, <1>3, <1>4 DEF IInv

\* The only answer under way is the one the holder of the mutex waits for.
LEMMA RxAnswerKeeps ==
  ASSUME chan # <<>>, IInv, RxAnswer(Head(chan)) PROVE IInv'
<1> USE DEF lifeVars, userVars
<1>1. PICK m \in Messages : m = Head(chan) /\ m = chan[1] /\ Take /\ m.kind = "answer"
  BY TakeFacts DEF RxAnswer
<1>2. /\ m.cmd \in AllCmds /\ m.cmd # Power /\ m.id \in 1 .. MaxOps /\ m.ok \in BOOLEAN
      /\ notif' = [cmd |-> m.cmd, ok |-> m.ok, cont |-> m.id]
  BY <1>1 DEF RxAnswer, Messages
<1>3. TypeOK'
  <2>1. LogFiles' = LogFiles
    BY DEF RxAnswer, LogFiles
  <2>2. notif' \in [cmd : PseCmds \cup AdCmds \cup {"LOG_ONOFF", "GET_FW_VER"}, ok : BOOLEAN, cont : 0 .. MaxOps]
    BY <1>2, BoundsAssumption DEF AllCmds
  <2>. QED
    BY <2>1, <2>2 DEF IInv, TypeOK, RxAnswer
<1>4. QueueInv' /\ CountInv' /\ LockInv'
  BY <1>1, TakeFacts DEF IInv, QueueInv, CountInv, Lockers, LockInv, InSection, RxAnswer
<1>5. LifeInv'
  BY DEF IInv, LifeInv, InUse, RxAnswer, Take, Receiving, Connected, LogFiles
<1>6. FilledInv'
  BY <1>2 DEF IInv, RxAnswer, FilledInv, Filled
<1>7. CleanInv'
  <2> SUFFICES ASSUME Clean' PROVE (ReqInv /\ ChanInv /\ StoredInv /\ PosInv /\ UserInv /\ AnswerOwn)'
    BY DEF CleanInv
  <2>1. Clean
    BY DEF Clean, RxAnswer
  <2>2. /\ chan # <<>> /\ Waiting /\ rx = "idle" /\ ~done /\ req = <<>>
        /\ \A j \in 1 .. Len(chan) : chan[j].id = num[mutex] /\ chan[j].cmd = op[mutex]
        /\ IF op[mutex] = Power THEN PowerChan ELSE Len(chan) = 1
    BY <2>1 DEF IInv, CleanInv, ReqInv, ChanInv
  <2>3. m.id = num[mutex] /\ m.cmd = op[mutex]
    BY <1>1, <2>2, TakeFacts
  <2>4. chan' = <<>>
    BY <1>1, <1>2, <2>2, <2>3, TakeFacts
  <2>5. pm_pos = 0
    BY <1>2, <2>1, <2>3 DEF IInv, CleanInv, PosInv
  <2>6. (ReqInv /\ ChanInv /\ StoredInv /\ PosInv)'
    BY <1>2, <2>2, <2>3, <2>4, <2>5 DEF RxAnswer, ReqInv, ChanInv, StoredInv, PosInv, Waiting
  <2>7. mutex \in Users /\ \A v \in Users : num[v] <= m.id
    BY <2>2, <2>3 DEF IInv, TypeOK, LockInv, InSection, Waiting
  <2>8. UserInv'
    <3>1. \A v \in Users : notif'.cont >= num[v]
      BY <1>2, <2>7 DEF IInv, TypeOK
    <3>. QED
      BY <2>1, <3>1 DEF IInv, CleanInv, RxAnswer, UserInv, UserPart, Whole
  <2>9. AnswerOwn'
    BY <2>1 DEF IInv, CleanInv, RxAnswer, AnswerOwn
  <2>. QED
    BY <2>6, <2>8, <2>9
<1>. QED
  BY <1>3, <1>4, <1>5, <1>6, <1>7 DEF IInv

\* The completion follows the stored answer.
LEMMA RxCompleteKeeps == IInv /\ RxComplete => IInv'
<1> SUFFICES ASSUME IInv, RxComplete PROVE IInv'
  OBVIOUS
<1> USE DEF lifeVars, userVars, fwVars
<1>1. TypeOK'
  <2>1. LogFiles' = LogFiles
    BY DEF RxComplete, LogFiles
  <2>. QED
    BY <2>1 DEF IInv, TypeOK, RxComplete
<1>2. QueueInv' /\ CountInv' /\ LockInv'
  BY DEF IInv, QueueInv, CountInv, Lockers, LockInv, InSection, RxComplete
<1>3. LifeInv' /\ FilledInv'
  BY DEF IInv, LifeInv, InUse, RxComplete, Receiving, Connected, LogFiles, FilledInv, Filled
<1>4. CleanInv'
  <2> SUFFICES ASSUME Clean' PROVE (ReqInv /\ ChanInv /\ StoredInv /\ PosInv /\ UserInv /\ AnswerOwn)'
    BY DEF CleanInv
  <2>1. Clean
    BY DEF Clean, RxComplete
  <2>2. (ReqInv /\ ChanInv /\ StoredInv /\ PosInv)'
    BY <2>1 DEF IInv, TypeOK, CleanInv, RxComplete, Waiting, ReqInv, Request, ChanInv, StoredInv, PosInv
  <2>3. (UserInv /\ AnswerOwn)'
    BY <2>1 DEF IInv, CleanInv, RxComplete, UserInv, UserPart, Whole, AnswerOwn
  <2>. QED
    BY <2>2, <2>3
<1>. QED
  BY <1>1, <1>2, <1>3, <1>4 DEF IInv

\* A piece of power data goes to its place; the last one, which comes when no
\* other message is under way, completes the command.
LEMMA RxPowerKeeps ==
  ASSUME chan # <<>>, IInv, RxPower(Head(chan)) PROVE IInv'
<1> USE DEF lifeVars, userVars
<1>1. PICK m \in Messages : m = Head(chan) /\ m = chan[1] /\ Take /\ m.kind = "power" /\ m.ok /\ RxPower(m)
  BY TakeFacts DEF RxPower
<1>2. /\ m.cmd = Power /\ m.cmd \in AllCmds /\ m.id \in 1 .. MaxOps /\ m.piece \in 1 .. Pieces /\ m.ok \in BOOLEAN
      /\ pm_pos \in 0 .. Pieces - 1 /\ Pieces \in Nat
  BY <1>1, BoundsAssumption DEF Messages, IInv, TypeOK
<1>3. /\ <<m.id, m.piece>> \in (1 .. MaxOps) \X (1 .. Pieces) /\ <<m.id, m.piece>> # None
      /\ pm_pos + 1 \in 1 .. Pieces
  BY <1>2, NoneAssumption
<1>4. pm' \in Data /\ \A p \in 1 .. Pieces : pm'[p] = IF p = pm_pos + 1 THEN <<m.id, m.piece>> ELSE pm[p]
  BY <1>1, <1>3 DEF IInv, TypeOK, RxPower, Data
<1>5. TypeOK'
  <2>1. LogFiles' = LogFiles
    BY <1>1 DEF RxPower, LogFiles
  <2>2. pm_pos' \in 0 .. Pieces - 1 /\ rx' \in {"idle", "complete"}
    BY <1>1, <1>2 DEF RxPower, Collected
  <2>3. notif' \in [cmd : PseCmds \cup AdCmds \cup {"LOG_ONOFF", "GET_FW_VER"}, ok : BOOLEAN, cont : 0 .. MaxOps]
    <3>1. CASE pm_pos + 1 >= Pieces
      <4>1. notif' = [notif EXCEPT !.cmd = m.cmd, !.ok = m.ok]
        BY <1>1, <3>1 DEF RxPower, Collected
      <4>. QED
        BY <1>2, <4>1 DEF IInv, TypeOK, AllCmds
    <3>2. CASE ~(pm_pos + 1 >= Pieces)
      BY <1>1, <3>2 DEF IInv, TypeOK, RxPower, Collected
    <3>. QED
      BY <3>1, <3>2
  <2>. QED
    BY <1>1, <1>4, <2>1, <2>2, <2>3 DEF IInv, TypeOK, RxPower
<1>6. QueueInv' /\ CountInv' /\ LockInv'
  BY <1>1, TakeFacts DEF IInv, QueueInv, CountInv, Lockers, LockInv, InSection, RxPower
<1>7. LifeInv'
  BY <1>1 DEF IInv, LifeInv, InUse, RxPower, Take, Receiving, Connected, LogFiles
<1>8. FilledInv'
  <2>1. Filled => Filled'
    BY <1>3, <1>4 DEF Filled
  <2>2. \A p \in 1 .. pm_pos + 1 : pm'[p] # None
    BY <1>2, <1>3, <1>4 DEF IInv, FilledInv
  <2>3. CASE pm_pos + 1 >= Pieces
    <3>1. pm_pos' = 0 /\ pm_pos + 1 = Pieces
      BY <1>1, <1>2, <2>3 DEF RxPower, Collected
    <3>2. Filled'
      BY <2>2, <3>1 DEF Filled
    <3>. QED
      BY <3>1, <3>2 DEF FilledInv
  <2>4. CASE ~(pm_pos + 1 >= Pieces)
    <3>1. pm_pos' = pm_pos + 1 /\ notif' = notif
      BY <1>1, <2>4 DEF RxPower, Collected
    <3>. QED
      BY <1>1, <2>1, <2>2, <3>1 DEF IInv, FilledInv, RxPower
  <2>. QED
    BY <2>3, <2>4
<1>9. CleanInv'
  <2> SUFFICES ASSUME Clean' PROVE (ReqInv /\ ChanInv /\ StoredInv /\ PosInv /\ UserInv /\ AnswerOwn)'
    BY DEF CleanInv
  <2>1. Clean /\ UNCHANGED <<userVars, mutex, done, req>>
    BY <1>1 DEF Clean, RxPower
  <2>2. /\ chan # <<>> /\ Waiting /\ rx = "idle" /\ ~done /\ req = <<>>
        /\ \A j \in 1 .. Len(chan) : chan[j].id = num[mutex] /\ chan[j].cmd = op[mutex]
        /\ op[mutex] = Power => PowerChan
    BY <2>1 DEF IInv, CleanInv, ReqInv, ChanInv
  <2>3. m.id = num[mutex] /\ op[mutex] = Power /\ PowerChan
    BY <1>1, <1>2, <2>2, TakeFacts
  <2>4. mutex \in Users /\ mutex # None /\ m.id = cnt
    BY <2>2, <2>3 DEF IInv, TypeOK, LockInv, InSection, Waiting
  <2>5. /\ Len(chan) \in Nat /\ Len(chan) >= 1 /\ pm_pos + Len(chan) <= Pieces
        /\ \A j \in 1 .. Len(chan) - 1 : chan[j].ok
        /\ (chan[Len(chan)].ok /\ pm_pos + Len(chan) = Pieces) =>
             /\ \A j \in 1 .. Len(chan) : chan[j].piece = pm_pos + j
             /\ \A p \in 1 .. pm_pos : pm[p] = <<num[mutex], p>>
    BY <1>1, <2>3, TakeFacts DEF PowerChan
  <2>6. /\ Len(chan') = Len(chan) - 1 /\ \A j \in 1 .. Len(chan) - 1 : chan'[j] = chan[j + 1]
        /\ Len(chan) = 1 => chan' = <<>>
    BY <1>1, TakeFacts
  <2>7. ASSUME pm_pos + 1 >= Pieces PROVE (ReqInv /\ ChanInv /\ StoredInv /\ PosInv)'
    <3>1. pm_pos' = 0 /\ rx' = "complete" /\ pm_pos + 1 = Pieces /\ notif'.cmd = Power
      BY <1>1, <1>2, <2>7 DEF RxPower, Collected, IInv, TypeOK
    <3>2. Len(chan) = 1 /\ chan' = <<>>
      BY <1>2, <2>5, <2>6, <3>1
    <3>3. \A p \in 1 .. Pieces : pm'[p] = <<num[mutex], p>>
      BY <1>1, <1>2, <1>4, <2>3, <2>5, <3>1, <3>2
    <3>. QED
      BY <2>1, <2>2, <2>3, <3>1, <3>2, <3>3 DEF ReqInv, ChanInv, StoredInv, PosInv, Waiting
  <2>8. ASSUME ~(pm_pos + 1 >= Pieces) PROVE (ReqInv /\ ChanInv /\ StoredInv /\ PosInv)'
    <3>1. pm_pos' = pm_pos + 1 /\ rx' = "idle"
      BY <1>1, <2>8 DEF RxPower, Collected
    <3>2. chan' # <<>> => PowerChan'
      <4> HAVE chan' # <<>>
      <4>1. Len(chan) > 1
        BY <2>5, <2>6
      <4>2. \A j \in 1 .. Len(chan') - 1 : chan'[j].ok
        BY <2>5, <2>6
      <4>3. pm_pos' + Len(chan') = pm_pos + Len(chan) /\ chan'[Len(chan')] = chan[Len(chan)]
        BY <1>2, <2>5, <2>6, <3>1, <4>1
      <4>4. ASSUME chan[Len(chan)].ok, pm_pos + Len(chan) = Pieces
            PROVE  /\ \A j \in 1 .. Len(chan') : chan'[j].piece = pm_pos' + j
                   /\ \A p \in 1 .. pm_pos' : pm'[p] = <<num[mutex], p>>
        <5>1. \A j \in 1 .. Len(chan') : chan'[j].piece = pm_pos' + j
          BY SMTT(30), <1>2, <2>5, <2>6, <3>1, <4>1, <4>4
        <5>2. m.piece = pm_pos + 1
          BY <1>1, <2>5, <4>4
        <5>3. \A p \in 1 .. pm_pos + 1 : pm'[p] = <<num[mutex], p>>
          <6>1. pm'[pm_pos + 1] = <<num[mutex], pm_pos + 1>>
            BY <1>3, <1>4, <2>3, <5>2
          <6>2. \A p \in 1 .. pm_pos : p \in 1 .. Pieces /\ p # pm_pos + 1 /\ pm[p] = <<num[mutex], p>>
            BY <1>2, <2>5, <4>4
          <6>. QED
            BY <1>2, <1>4, <6>1, <6>2
        <5>. QED
          BY <3>1, <5>1, <5>3
      <4>. QED
        BY <2>1, <2>5, <4>2, <4>3, <4>4 DEF PowerChan
    <3>3. \A j \in 1 .. Len(chan') : chan'[j].id = num[mutex] /\ chan'[j].cmd = op[mutex]
      <4> TAKE j \in 1 .. Len(chan')
      <4>1. j \in 1 .. Len(chan) - 1 /\ j + 1 \in 1 .. Len(chan)
        BY <2>5, <2>6
      <4>2. chan'[j] = chan[j + 1]
        BY <2>6, <4>1
      <4>. QED
        BY <2>2, <4>1, <4>2
    <3>. QED
      BY <2>1, <2>2, <2>3, <3>1, <3>2, <3>3 DEF ReqInv, ChanInv, StoredInv, PosInv, Waiting
  <2>9. ASSUME NEW v \in Users, pc[v] # "wait", Whole(pm, v) PROVE Whole(pm, v)'
    <3>1. num[v] < m.id
      BY <2>2, <2>4, <2>9 DEF IInv, LockInv, InSection, Waiting
    <3>. QED
      BY <1>4, <2>1, <2>9, <3>1 DEF Whole
  <2>10. UserInv'
    <3>1. notif'.cont = notif.cont
      BY <1>1 DEF RxPower, Collected, IInv, TypeOK
    <3>2. ASSUME NEW v \in Users, NEW s \in DOMAIN seen[v] PROVE Whole(seen[v][s], v)'
      BY <2>1 DEF IInv, CleanInv, UserInv, UserPart, Whole
    <3>. QED
      BY <2>1, <2>9, <3>1, <3>2 DEF IInv, CleanInv, UserInv, UserPart
  <2>11. AnswerOwn'
    BY <1>1, <2>1 DEF IInv, CleanInv, RxPower, AnswerOwn
  <2>. QED
    BY <2>7, <2>8, <2>10, <2>11
<1>. QED
  BY <1>5, <1>6, <1>7, <1>8, <1>9 DEF IInv

\* An error ends the power data: it is the last message under way.
LEMMA PowerErrorKeeps ==
  ASSUME chan # <<>>, IInv, RxPowerError(Head(chan)) PROVE IInv'
<1> USE DEF lifeVars, userVars
<1>1. PICK m \in Messages : m = Head(chan) /\ m = chan[1] /\ Take /\ m.kind = "power" /\ ~m.ok /\ RxPowerError(m)
  BY TakeFacts DEF RxPowerError
<1>2. m.cmd = Power /\ m.cmd \in AllCmds /\ m.id \in 1 .. MaxOps /\ m.ok \in BOOLEAN
  BY <1>1 DEF Messages
<1>3. pm_pos' = 0 /\ rx' = "complete" /\ notif' = [notif EXCEPT !.cmd = m.cmd, !.ok = m.ok]
  BY <1>1 DEF RxPowerError, Collected
<1>4. TypeOK'
  <2>1. LogFiles' = LogFiles
    BY <1>1 DEF RxPowerError, LogFiles
  <2>2. pm_pos' \in 0 .. Pieces - 1
    BY <1>3, BoundsAssumption
  <2>3. notif' \in [cmd : PseCmds \cup AdCmds \cup {"LOG_ONOFF", "GET_FW_VER"}, ok : BOOLEAN, cont : 0 .. MaxOps]
    BY <1>2, <1>3 DEF IInv, TypeOK, AllCmds
  <2>. QED
    BY <1>1, <1>3, <2>1, <2>2, <2>3 DEF IInv, TypeOK, RxPowerError
<1>5. QueueInv' /\ CountInv' /\ LockInv'
  BY <1>1, TakeFacts DEF IInv, QueueInv, CountInv, Lockers, LockInv, InSection, RxPowerError
<1>6. LifeInv'
  BY <1>1 DEF IInv, LifeInv, InUse, RxPowerError, Take, Receiving, Connected, LogFiles
<1>7. FilledInv'
  <2>1. ~notif'.ok
    BY <1>1, <1>3 DEF IInv, TypeOK
  <2>. QED
    BY <1>1, <1>3, <2>1 DEF IInv, FilledInv, Filled, RxPowerError
<1>8. CleanInv'
  <2> SUFFICES ASSUME Clean' PROVE (ReqInv /\ ChanInv /\ StoredInv /\ PosInv /\ UserInv /\ AnswerOwn)'
    BY DEF CleanInv
  <2>1. Clean /\ UNCHANGED <<userVars, mutex, done, req, pm>>
    BY <1>1 DEF Clean, RxPowerError
  <2>2. /\ chan # <<>> /\ Waiting /\ rx = "idle" /\ ~done /\ req = <<>>
        /\ \A j \in 1 .. Len(chan) : chan[j].id = num[mutex] /\ chan[j].cmd = op[mutex]
        /\ op[mutex] = Power => PowerChan
    BY <2>1 DEF IInv, CleanInv, ReqInv, ChanInv
  <2>3. op[mutex] = Power /\ PowerChan
    BY <1>1, <1>2, <2>2, TakeFacts
  <2>4. Len(chan) = 1 /\ chan' = <<>>
    BY <1>1, <2>3, TakeFacts DEF PowerChan
  <2>5. notif'.cmd = Power /\ ~notif'.ok /\ notif'.cont = notif.cont
    BY <1>1, <1>2, <1>3 DEF IInv, TypeOK
  <2>6. (ReqInv /\ ChanInv /\ StoredInv /\ PosInv)'
    BY <1>3, <2>1, <2>2, <2>3, <2>4, <2>5 DEF ReqInv, ChanInv, StoredInv, PosInv, Waiting
  <2>7. UserInv'
    BY <2>1, <2>5 DEF IInv, CleanInv, UserInv, UserPart, Whole
  <2>8. AnswerOwn'
    BY <1>1, <2>1 DEF IInv, CleanInv, RxPowerError, AnswerOwn
  <2>. QED
    BY <2>6, <2>7, <2>8
<1>. QED
  BY <1>4, <1>5, <1>6, <1>7, <1>8 DEF IInv

\* The pieces the firmware sends are a sequence of messages.
LEMMA PiecesAreMessages ==
  ASSUME NEW q \in Requests, q.cmd = Power, NEW k \in 0 .. Pieces,
         NEW s, s = [p \in 1 .. k |-> Message("power", q.cmd, q.id, p, TRUE)]
  PROVE  s \in Seq(Messages) /\ Len(s) = k
<1>1. \A p \in 1 .. k : Message("power", q.cmd, q.id, p, TRUE) \in Messages
  BY BoundsAssumption DEF Message, Messages, Requests
<1>2. k \in Nat
  BY BoundsAssumption
<1>3. s \in [1 .. k -> Messages]
  BY <1>1
<1>4. s \in Seq(Messages)
  BY <1>2, <1>3, SeqDef
<1>5. DOMAIN s = 1 .. k /\ DOMAIN s = 1 .. Len(s) /\ Len(s) \in Nat
  BY <1>3, <1>4, LenProperties
<1>6. k >= 1 => k \in 1 .. Len(s)
  BY <1>2, <1>5
<1>7. Len(s) >= 1 => Len(s) \in 1 .. k
  BY <1>5
<1>8. Len(s) = k
  BY <1>2, <1>5, <1>6, <1>7
<1>. QED
  BY <1>4, <1>8

\* What the firmware answers: one message, or power data whose pieces are in
\* order, of which only the last may be an error.
LEMMA AnswerShape ==
  ASSUME NEW q \in Requests, NEW a \in AnswersTo(q)
  PROVE  /\ a \in Seq(Messages) /\ Len(a) \in Nat
         /\ \A j \in 1 .. Len(a) : a[j].id = q.id /\ a[j].cmd = q.cmd
         /\ q.cmd # Power => Len(a) = 1
         /\ q.cmd = Power => /\ Len(a) <= Pieces /\ Len(a) >= 1
                             /\ \A j \in 1 .. Len(a) - 1 : a[j].ok
                             /\ a[Len(a)].ok => \A j \in 1 .. Len(a) : a[j].piece = j
<1>1. CASE q.cmd # Power
  <2>1. PICK ok \in BOOLEAN : a = <<Message("answer", q.cmd, q.id, 0, ok)>>
    BY <1>1 DEF AnswersTo, Power
  <2>2. Message("answer", q.cmd, q.id, 0, ok) \in Messages
    BY <1>1, BoundsAssumption DEF Message, Messages, Requests
  <2>3. a \in Seq(Messages) /\ Len(a) = 1 /\ a[1] = Message("answer", q.cmd, q.id, 0, ok)
    BY <2>1, <2>2
  <2>. QED
    BY <1>1, <2>3 DEF Message
<1>2. CASE q.cmd = Power
  <2> DEFINE piece(p) == Message("power", q.cmd, q.id, p, TRUE)
  <2>1. ASSUME NEW k \in 1 .. Pieces, a = [p \in 1 .. k |-> piece(p)]
        PROVE  /\ a \in Seq(Messages) /\ Len(a) = k
               /\ \A j \in 1 .. k : a[j].id = q.id /\ a[j].cmd = q.cmd /\ a[j].ok /\ a[j].piece = j
    <3>1. k \in 0 .. Pieces
      BY BoundsAssumption
    <3>2. a \in Seq(Messages) /\ Len(a) = k
      BY <1>2, <2>1, <3>1, PiecesAreMessages
    <3>3. \A j \in 1 .. k : a[j] = piece(j)
      BY <2>1
    <3>. QED
      BY <3>2, <3>3 DEF Message
  <2>2. ASSUME NEW k \in 0 .. Pieces - 1, a = Append([p \in 1 .. k |-> piece(p)], Message("power", q.cmd, q.id, 0, FALSE))
        PROVE  /\ a \in Seq(Messages) /\ Len(a) = k + 1
               /\ \A j \in 1 .. k : a[j].id = q.id /\ a[j].cmd = q.cmd /\ a[j].ok
               /\ a[k + 1].id = q.id /\ a[k + 1].cmd = q.cmd /\ ~a[k + 1].ok
    <3>1. PICK s : s = [p \in 1 .. k |-> piece(p)]
      OBVIOUS
    <3>2. PICK e : e = Message("power", q.cmd, q.id, 0, FALSE)
      OBVIOUS
    <3>3. s \in Seq(Messages) /\ Len(s) = k /\ k \in Nat
      <4>1. k \in 0 .. Pieces /\ k \in Nat
        BY BoundsAssumption
      <4>. QED
        BY <1>2, <3>1, <4>1, PiecesAreMessages
    <3>4. e \in Messages
      BY <1>2, <3>2, BoundsAssumption DEF Message, Messages, Requests
    <3>5. a = Append(s, e)
      BY <2>2, <3>1, <3>2
    <3>6. a \in Seq(Messages) /\ Len(a) = k + 1 /\ (\A j \in 1 .. k : a[j] = s[j]) /\ a[k + 1] = e
      BY <3>3, <3>4, <3>5, AppendProperties
    <3>7. \A j \in 1 .. k : s[j].id = q.id /\ s[j].cmd = q.cmd /\ s[j].ok
      BY <3>1 DEF Message
    <3>8. e.id = q.id /\ e.cmd = q.cmd /\ ~e.ok
      BY <3>2 DEF Message
    <3>. QED
      BY <3>6, <3>7, <3>8
  <2>3. \/ \E k \in 1 .. Pieces : a = [p \in 1 .. k |-> piece(p)]
        \/ \E k \in 0 .. Pieces - 1 : a = Append([p \in 1 .. k |-> piece(p)], Message("power", q.cmd, q.id, 0, FALSE))
    BY <1>2 DEF AnswersTo, PowerAnswers, Power
  <2>4. CASE \E k \in 1 .. Pieces : a = [p \in 1 .. k |-> piece(p)]
    <3>1. PICK k \in 1 .. Pieces : a = [p \in 1 .. k |-> piece(p)]
      BY <2>4
    <3>2. /\ a \in Seq(Messages) /\ Len(a) = k
          /\ \A j \in 1 .. k : a[j].id = q.id /\ a[j].cmd = q.cmd /\ a[j].ok /\ a[j].piece = j
      BY <2>1, <3>1
    <3>. QED
      BY <1>2, <3>2, BoundsAssumption
  <2>5. CASE \E k \in 0 .. Pieces - 1 : a = Append([p \in 1 .. k |-> piece(p)], Message("power", q.cmd, q.id, 0, FALSE))
    <3>1. PICK k \in 0 .. Pieces - 1 : a = Append([p \in 1 .. k |-> piece(p)], Message("power", q.cmd, q.id, 0, FALSE))
      BY <2>5
    <3> HIDE DEF piece
    <3>2. /\ a \in Seq(Messages) /\ Len(a) = k + 1
          /\ \A j \in 1 .. k : a[j].id = q.id /\ a[j].cmd = q.cmd /\ a[j].ok
          /\ a[k + 1].id = q.id /\ a[k + 1].cmd = q.cmd /\ ~a[k + 1].ok
      BY <2>2, <3>1
    <3>3. \A j \in 1 .. k + 1 : j \in 1 .. k \/ j = k + 1
      BY BoundsAssumption
    <3>. QED
      BY <1>2, <3>2, <3>3, BoundsAssumption
  <2>. QED
    BY <2>3, <2>4, <2>5
<1>. QED
  BY <1>1, <1>2

\* The firmware answers the one request under way, with nothing before it in
\* the queue.
LEMMA FwAnswerKeeps == IInv /\ FwAnswer => IInv'
<1> SUFFICES ASSUME IInv, FwAnswer PROVE IInv'
  OBVIOUS
<1> USE DEF lifeVars, userVars, rxVars
<1>1. TypeOK'
  <2>1. LogFiles' = LogFiles
    BY DEF FwAnswer, LogFiles
  <2>. QED
    BY <2>1 DEF IInv, TypeOK, FwAnswer
<1>2. Head(req) \in Requests /\ Tail(req) \in Seq(Requests) /\ chan \in Seq(Messages)
  BY HeadTailProperties DEF IInv, QueueInv, FwAnswer
<1>3. PICK a \in AnswersTo(Head(req)) \cup {<<>>} : chan' = chan \o a
  BY DEF FwAnswer
<1>4. a \in Seq(Messages)
  BY <1>2, AnswerShape, EmptySeq
<1>5. QueueInv' /\ CountInv' /\ LockInv'
  <2>1. chan' \in Seq(Messages)
    BY <1>2, <1>3, <1>4, ConcatProperties
  <2>. QED
    BY <1>2, <2>1 DEF IInv, QueueInv, CountInv, Lockers, LockInv, InSection, FwAnswer
<1>6. LifeInv' /\ FilledInv'
  BY DEF IInv, LifeInv, InUse, FwAnswer, Receiving, Connected, LogFiles, FilledInv, Filled
<1>7. CleanInv'
  <2> SUFFICES ASSUME Clean' PROVE (ReqInv /\ ChanInv /\ StoredInv /\ PosInv /\ UserInv /\ AnswerOwn)'
    BY DEF CleanInv
  <2>1. Clean /\ UNCHANGED <<userVars, rxVars, mutex, done>>
    BY DEF Clean, FwAnswer
  <2>2. /\ Waiting /\ req = <<Request(mutex)>>
        /\ chan = <<>> /\ rx = "idle" /\ ~done /\ pm_pos = 0
    BY <2>1 DEF IInv, CleanInv, ReqInv, FwAnswer
  <2>3. req' = <<>> /\ Head(req) = Request(mutex)
    BY <2>2 DEF FwAnswer
  <2>4. chan' = a
    BY <1>3, <1>4, <2>2, ConcatEmptySeq
  <2>5. chan' # <<>> => ChanInv'
    <3> HAVE chan' # <<>>
    <3>1. a \in AnswersTo(Head(req)) /\ Head(req).id = num[mutex] /\ Head(req).cmd = op[mutex]
      BY <1>3, <2>3, <2>4 DEF Request
    <3>2. CASE op[mutex] = Power
      <4>1. PowerChan'
        <5>1. /\ Len(a) <= Pieces /\ Len(a) \in Nat
              /\ \A j \in 1 .. Len(a) - 1 : a[j].ok
              /\ a[Len(a)].ok => \A j \in 1 .. Len(a) : a[j].piece = j
          BY <1>2, <3>1, <3>2, AnswerShape
        <5>. QED
          BY <2>1, <2>2, <2>4, <5>1, BoundsAssumption DEF PowerChan
      <4>. QED
        BY <1>2, <2>1, <2>2, <2>4, <3>1, <3>2, <4>1, AnswerShape DEF ChanInv, Waiting
    <3>3. CASE op[mutex] # Power
      BY <1>2, <2>1, <2>2, <2>4, <3>1, <3>3, AnswerShape DEF ChanInv, Waiting
    <3>. QED
      BY <3>2, <3>3
  <2>6. (ReqInv /\ StoredInv /\ PosInv)' /\ (chan' = <<>> => ChanInv')
    BY <2>1, <2>2, <2>3 DEF ReqInv, StoredInv, PosInv, ChanInv
  <2>7. (UserInv /\ AnswerOwn)'
    BY <2>1 DEF IInv, CleanInv, FwAnswer, UserInv, UserPart, Whole, AnswerOwn
  <2>. QED
    BY <2>5, <2>6, <2>7
<1>. QED
  BY <1>1, <1>5, <1>6, <1>7 DEF IInv

\* Probe and remove: users come and go only between "up" and "hidden".
LEMMA LifeKeeps ==
  ASSUME IInv, ProbeEnable \/ ProbeRegister \/ ProbeOpen \/ ProbeFailed \/ RemoveComplete \/ Remove
  PROVE  IInv'
<1> USE DEF others, userVars, rxVars, fwVars, Life, Disabled
<1>1. UNCHANGED <<drv, userVars, pos, notif, pm, pm_pos, rx, cnt, dirty, mutex>> /\ LogFiles' = LogFiles
  BY DEF ProbeEnable, ProbeRegister, ProbeOpen, ProbeFailed, RemoveComplete, Remove, RemoveDisable,
     RemoveHide, RemoveDrain, RemoveClose, RemoveFree, LogFiles
<1>2. (req' = req /\ chan' = chan) \/ (req' = <<>> /\ chan' = <<>>)
  BY DEF ProbeEnable, ProbeRegister, ProbeOpen, ProbeFailed, RemoveComplete, Remove, RemoveDisable,
     RemoveHide, RemoveDrain, RemoveClose, RemoveFree
<1>3. TypeOK'
  <2>1. files' \subseteq LogFiles /\ (done' = done \/ done' = TRUE)
    BY DEF ProbeEnable, ProbeRegister, ProbeOpen, ProbeFailed, RemoveComplete, Remove, RemoveDisable,
       RemoveHide, RemoveDrain, RemoveClose, RemoveFree, LogFiles, IInv, TypeOK
  <2>2. life' \in {"off", "enabled", "registered", "em", "closing", "failing", "up",
                     "completed", "disabled", "hidden", "drained", "closed", "freed"}
    BY DEF ProbeEnable, ProbeRegister, ProbeOpen, ProbeFailed, RemoveComplete, Remove, RemoveDisable,
       RemoveHide, RemoveDrain, RemoveClose, RemoveFree
  <2>. QED
    BY <1>1, <2>1, <2>2 DEF IInv, TypeOK
<1>4. QueueInv' /\ CountInv' /\ LockInv'
  <2>1. QueueInv'
    BY <1>2, EmptySeq DEF IInv, QueueInv
  <2>. QED
    BY <1>1, <2>1 DEF IInv, CountInv, Lockers, LockInv, InSection
<1>5. FilledInv'
  BY <1>1 DEF IInv, FilledInv, Filled
<1>6. LifeInv'
  <2>1. CASE ProbeEnable \/ ProbeRegister
    BY <1>1, <2>1 DEF IInv, TypeOK, LifeInv, InUse, Receiving, Connected, ProbeEnable, ProbeRegister
  <2>2. CASE ProbeOpen
    BY <1>1, <2>2 DEF IInv, TypeOK, LifeInv, InUse, Receiving, Connected, ProbeOpen
  <2>3. CASE ProbeFailed
    BY <1>1, <2>3 DEF IInv, TypeOK, LifeInv, InUse, Receiving, Connected, ProbeFailed
  <2>4. CASE RemoveComplete
    BY <1>1, <2>4 DEF IInv, TypeOK, LifeInv, InUse, Receiving, Connected, RemoveComplete
  <2>5. CASE Remove
    BY <1>1, <2>5 DEF IInv, TypeOK, LifeInv, InUse, Receiving, Connected, Remove, RemoveDisable,
       RemoveHide, RemoveDrain, RemoveClose, RemoveFree
  <2>. QED
    BY <2>1, <2>2, <2>3, <2>4, <2>5
<1>7. CleanInv'
  <2> SUFFICES ASSUME Clean' PROVE (ReqInv /\ ChanInv /\ StoredInv /\ PosInv /\ UserInv /\ AnswerOwn)'
    BY DEF CleanInv
  <2>1. life \in {"registered", "em"} /\ life' = "up" /\ UNCHANGED <<fwVars, done>>
    BY DEF Clean, ProbeEnable, ProbeRegister, ProbeOpen, ProbeFailed, RemoveComplete, Remove, RemoveDisable,
       RemoveHide, RemoveDrain, RemoveClose, RemoveFree
  <2>2. /\ req = <<>> /\ chan = <<>> /\ rx = "idle" /\ ~done /\ pm_pos = 0
        /\ \A u \in Users : pc[u] = "idle" /\ res[u] = "none" /\ seen[u] = <<>>
    BY <2>1 DEF IInv, LifeInv, InUse
  <2>3. (ReqInv /\ ChanInv /\ StoredInv /\ PosInv)'
    BY <1>1, <2>1, <2>2 DEF ReqInv, ChanInv, StoredInv, PosInv
  <2>4. (UserInv /\ AnswerOwn)'
    BY <1>1, <2>2 DEF UserInv, UserPart, AnswerOwn
  <2>. QED
    BY <2>3, <2>4
<1>. QED
  BY <1>3, <1>4, <1>5, <1>6, <1>7 DEF IInv

-----------------------------------------------------------------------------
(* The theorems.                                                           *)

LEMMA Invariance == Spec => []IInv
<1>1. IInv /\ [Next]_vars => IInv'
  <2> SUFFICES ASSUME IInv, [Next]_vars PROVE IInv'
    OBVIOUS
  <2>1. ASSUME NEW u \in Users, NEW c \in Cmds, Begin(u, c) PROVE IInv'
    BY <2>1, BeginKeeps
  <2>2. ASSUME NEW u \in Users, Lock(u) PROVE IInv'
    BY <2>2, LockKeeps
  <2>3. ASSUME NEW u \in Users, Operation(u) PROVE IInv'
    BY <2>3, SendKeeps, SendFailsKeeps, TimeoutKeeps, WakeKeeps, UnlockKeeps, ReadAnswerKeeps,
       dump_power_state_data_keeps, dump_dev_power_data_keeps DEF Operation
  <2>4. CASE Receive
    BY <2>4, RxCompleteKeeps, RxAnswerKeeps, RxPowerKeeps, PowerErrorKeeps DEF Receive, Handle
  <2>5. CASE Firmware
    BY <2>5, FwAnswerKeeps, RecvFailsKeeps, RxLogKeeps DEF Firmware
  <2>6. CASE UNCHANGED vars
    BY <2>6, StutterKeeps
  <2>. QED
    BY <2>1, <2>2, <2>3, <2>4, <2>5, <2>6, LifeKeeps DEF Next
<1>. QED
  BY <1>1, IInvInit, PTL DEF Spec

\* Every variable of the two clients keeps its type: the positions stay within
\* the buffer and the log, whatever fails.
THEOREM TypeCorrect == Spec => []TypeOK
<1>1. IInv => TypeOK
  BY DEF IInv
<1>. QED
  BY <1>1, Invariance, PTL

\* While no command has failed and remove has not begun, what a user reads with
\* success is the answer to its own command; the time may be a later one's.
THEOREM AnswersOwn == Spec => []AnswerOwn
<1>1. IInv => AnswerOwn
  BY DEF IInv, CleanInv, Clean, AnswerOwn
<1>. QED
  BY <1>1, Invariance, PTL

\* In both of its passes a user sees the power data of its own command or of a
\* later one, each piece in its place, while no command has failed.
THEOREM PowerDataWhole == Spec => []PowerWhole
<1>1. IInv => PowerWhole
  BY DEF IInv, CleanInv, Clean, UserInv, UserPart, Whole, PowerWhole
<1>. QED
  BY <1>1, Invariance, PTL

\* Whatever fails, the power data is only formatted once all of it was
\* received: the sum of its durations is never that of an empty buffer.
THEOREM PowerDataFilled == Spec => []PowerFilled
<1>1. IInv => PowerFilled
  BY DEF IInv, FilledInv, Filled, PowerFilled, Power
<1>. QED
  BY <1>1, Invariance, PTL

\* Nothing is freed under a user or under the callback, and the log files of a
\* bound driver are open.
THEOREM FreedQuiescent == Spec => []Quiescent
<1>1. IInv => Quiescent
  <2> SUFFICES ASSUME IInv PROVE Quiescent
    OBVIOUS
  <2>1. life = "freed" => /\ \A u \in Users : pc[u] = "idle"
                         /\ rx = "idle" /\ mutex = None /\ files = {}
    BY DEF IInv, TypeOK, LifeInv, InUse, LockInv, InSection, Receiving, Connected
  <2>. QED
    BY <2>1 DEF IInv, LifeInv, Quiescent
<1>. QED
  BY <1>1, Invariance, PTL
=============================================================================
