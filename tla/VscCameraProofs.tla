-------------------------- MODULE VscCameraProofs --------------------------
(***************************************************************************)
(* Proofs about VscCamera, for every set of users and every number of      *)
(* operations.                                                             *)
(***************************************************************************)
EXTENDS VscCamera, SequenceTheorems, TLAPS

-----------------------------------------------------------------------------
(* The inductive invariant, in named parts.                                *)

\* A user that is not idle is in one of its counted operations.
CountedInv == \A u \in Users : pc[u] # "idle" => k[u] >= 1

\* While nothing was lost, late or removed: clients come but do not go, and
\* vsc.mutex is held by the one user inside the hand-over.
Inside(u) == pc[u] \in CsiPcs \cup AcePcs
HolderInv ==
  /\ \A x \in Clients : life[x] \in {"absent", "live"}
  /\ \A u \in Users : pc[u] # "uaf" /\ (Inside(u) <=> vmutex = u)

\* What is under way at a client: nothing, or the holder's command, or its
\* answer, on the wire or stored. Where the firmware accepted the command, its
\* owner is the one the holder asked for.
H == vmutex
Quiet(x, slots) == toFw[x] = <<>> /\ fromFw[x] = <<>> /\ \A s \in slots : ~done[s]
CsiOwned(good) == good /\ ccmd[H] = "set_owner" => csiOwner = Owner(H)

CsiSent(m) ==
  /\ toFw["csi"] = <<m>> /\ fromFw["csi"] = <<>> /\ ~done["response"]
  /\ m.cmd = ccmd[H] /\ m.arg = Owner(H)
CsiAnswered(m) ==
  /\ toFw["csi"] = <<>> /\ fromFw["csi"] = <<[slot |-> "response", msg |-> m]>> /\ ~done["response"]
  /\ CsiOwned(m.ok)
CsiStored ==
  /\ toFw["csi"] = <<>> /\ fromFw["csi"] = <<>> /\ done["response"]
  /\ CsiOwned(got["response"].ok)
CsiInv ==
  \/ Quiet("csi", {"response"})
  \/ /\ H # None /\ pc[H] = "csi_wait"
     /\ (\E m \in Messages : CsiSent(m) \/ CsiAnswered(m)) \/ CsiStored

NotifyComing ==
  \/ ~done["notify"] /\ \E m \in Messages : fromFw["ace"] = <<[slot |-> "notify", msg |-> m]>>
  \/ done["notify"] /\ fromFw["ace"] = <<>>
AceSent(m) ==
  /\ toFw["ace"] = <<m>> /\ fromFw["ace"] = <<>> /\ ~done["reply"] /\ ~done["notify"]
  /\ m.cmd = AceCmd(H) /\ m.arg = Owner(H)
AceRefused(m) ==
  /\ toFw["ace"] = <<>> /\ fromFw["ace"] = <<[slot |-> "reply", msg |-> m]>> /\ ~done["reply"] /\ ~done["notify"]
  /\ ~m.ok
AceAnswered(m) ==
  /\ toFw["ace"] = <<>> /\ ~done["reply"] /\ ~done["notify"]
  /\ fromFw["ace"] = <<[slot |-> "reply", msg |-> m], [slot |-> "notify", msg |-> m]>>
  /\ m.ok /\ m.cmd = AceCmd(H) /\ camOwner = Owner(H)
AceStored ==
  /\ toFw["ace"] = <<>> /\ done["reply"]
  /\ IF got["reply"].ok THEN got["reply"].cmd = AceCmd(H) /\ camOwner = Owner(H) /\ NotifyComing
                        ELSE fromFw["ace"] = <<>> /\ ~done["notify"]
AceNotified ==
  /\ toFw["ace"] = <<>> /\ ~done["reply"]
  /\ camOwner = Owner(H) /\ NotifyComing
AceInv ==
  \/ Quiet("ace", {"reply", "notify"})
  \/ /\ H # None /\ pc[H] = "ace_reply"
     /\ (\E m \in Messages : AceSent(m) \/ AceRefused(m) \/ AceAnswered(m)) \/ AceStored
  \/ H # None /\ pc[H] = "ace_notify" /\ AceNotified

\* How far the holder has come: acquire takes the camera before the CSI link,
\* release returns it after.
CsiPart == {"csi_lock", "csi_send", "csi_wait"}
ProgressInv == H # None =>
  /\ pc[H] # "cb" => cb = IF op[H] = "acquire" THEN H ELSE None
  /\ (op[H] = "acquire" /\ pc[H] \in CsiPart) =>
       camOwner = "IPU" /\ (ccmd[H] = "set_mipi_conf" => csiOwner = "IPU")
  /\ (op[H] = "release" /\ pc[H] \in CsiPart) => ccmd[H] = "set_owner"
  /\ (op[H] = "release" /\ pc[H] \in AcePcs) => csiOwner = "FW"

CleanInv == ~disturbed => HolderInv /\ CsiInv /\ AceInv /\ ProgressInv /\ OwnershipAgrees

IInv == TypeOK /\ CountedInv /\ CleanInv

-----------------------------------------------------------------------------
(* It holds initially and every action preserves it.                       *)

LEMMA IInvInit == Init => IInv
<1> SUFFICES ASSUME Init PROVE IInv
  OBVIOUS
<1>1. TypeOK
  <2>1. got \in [Slots -> Messages]
    BY DEF Init, Zeroed, Slots, Messages, Cmds, Own
  <2>2. toFw \in [Clients -> Seq(Messages)] /\ fromFw \in [Clients -> Seq(Answers)]
    BY EmptySeq DEF Init
  <2>3. k \in [Users -> 0 .. MaxOps]
    BY UsersAssumption DEF Init
  <2>. QED
    BY <2>1, <2>2, <2>3 DEF Init, TypeOK, CsiPcs, AcePcs, Lives, Ops, Own
<1>2. CountedInv
  BY DEF Init, CountedInv
<1>3. HolderInv
  BY UsersAssumption DEF Init, HolderInv, Inside, CsiPcs, AcePcs
<1>4. CsiInv /\ AceInv
  BY DEF Init, CsiInv, AceInv, Quiet, Clients, Slots
<1>5. ProgressInv /\ OwnershipAgrees
  BY DEF Init, H, ProgressInv, OwnershipAgrees
<1>. QED
  BY <1>1, <1>2, <1>3, <1>4, <1>5 DEF IInv, CleanInv

LEMMA StutterKeeps == IInv /\ UNCHANGED vars => IInv'
<1> SUFFICES ASSUME IInv, UNCHANGED vars PROVE IInv'
  OBVIOUS
<1>1. TypeOK' /\ CountedInv' /\ HolderInv = HolderInv'
  BY DEF IInv, vars, TypeOK, CountedInv, HolderInv, Inside
<1>2. (CsiInv => CsiInv') /\ (AceInv => AceInv')
  BY DEF vars, H, CsiInv, Quiet, CsiOwned, CsiSent, CsiAnswered, CsiStored, Owner, AceInv, NotifyComing, AceSent,
     AceRefused, AceAnswered, AceStored, AceNotified, AceCmd
<1>3. (ProgressInv => ProgressInv') /\ (OwnershipAgrees => OwnershipAgrees')
  BY DEF vars, H, ProgressInv, OwnershipAgrees
<1>. QED
  BY <1>1, <1>2, <1>3 DEF IInv, CleanInv, vars

\* A command carries the number of its operation.
LEMMA CommandType ==
  ASSUME IInv, NEW u \in Users, NEW c \in Cmds, NEW good \in BOOLEAN, pc[u] # "idle"
  PROVE  Command(u, c, good) \in Messages
<1>1. k[u] \in 1 .. MaxOps
  BY UsersAssumption DEF IInv, TypeOK, CountedInv
<1>2. Id(u) \in (Users \X (1 .. MaxOps)) /\ Owner(u) \in Own
  BY <1>1 DEF Id, Owner, Own
<1>. QED
  BY <1>2 DEF Command, Messages

\* The invariants of the wire depend on the holder and on what is under way.
LEMMA WireFrame ==
  ASSUME UNCHANGED <<vmutex, wireVars, done, got, fwVars>>,
         vmutex # None => pc'[vmutex] = pc[vmutex] /\ op'[vmutex] = op[vmutex] /\ ccmd'[vmutex] = ccmd[vmutex]
  PROVE  (CsiInv => CsiInv') /\ (AceInv => AceInv')
<1>1. vmutex # None => AceCmd(H)' = AceCmd(H) /\ Owner(H)' = Owner(H) /\ \A b : CsiOwned(b) => CsiOwned(b)'
  BY DEF AceCmd, Owner, H, CsiOwned, fwVars
<1>2. (CsiInv => CsiInv')
  BY <1>1 DEF H, CsiInv, Quiet, CsiSent, CsiAnswered, CsiStored, wireVars
<1>3. (AceInv => AceInv')
  BY <1>1 DEF H, AceInv, Quiet, NotifyComing, AceSent, AceRefused, AceAnswered, AceStored, AceNotified, wireVars, fwVars
<1>. QED
  BY <1>2, <1>3

\* A client is registered.
LEMMA CsiProbeKeeps ==
  ASSUME IInv, mei_csi_probe PROVE IInv'
<1> USE DEF vscVars, clientVars, userVars, wireVars, fwVars
<1>1. TypeOK'
  BY DEF IInv, TypeOK, CsiPcs, AcePcs, mei_csi_probe, Clients, Lives
<1>2. CountedInv'
  BY DEF IInv, TypeOK, CountedInv, mei_csi_probe, Clients, Lives
<1>3. CleanInv'
  <2> SUFFICES ASSUME ~disturbed' PROVE (HolderInv /\ CsiInv /\ AceInv /\ ProgressInv /\ OwnershipAgrees)'
    BY DEF CleanInv
  <2>1. ~disturbed /\ HolderInv /\ CsiInv /\ AceInv /\ ProgressInv /\ OwnershipAgrees
    BY DEF IInv, CleanInv, mei_csi_probe, Clients, Lives
  <2>2. HolderInv'
    BY <2>1, UsersAssumption DEF IInv, TypeOK, CleanInv, HolderInv, Inside, CsiPcs, AcePcs, mei_csi_probe, Clients, Lives
  <2>3. CsiInv'
    BY <2>1, UsersAssumption, <2>2 DEF IInv, TypeOK, CleanInv, HolderInv, Inside, CsiPcs, AcePcs, H, CsiInv, Quiet, CsiOwned, CsiSent, CsiAnswered, CsiStored, Owner, mei_csi_probe, Clients, Lives
  <2>4. AceInv'
    BY <2>1, UsersAssumption, <2>2 DEF IInv, TypeOK, CleanInv, HolderInv, Inside, CsiPcs, AcePcs, H, AceInv, Quiet, NotifyComing, AceSent, AceRefused, AceAnswered, AceStored, AceNotified, Owner, AceCmd, mei_csi_probe, Clients, Lives
  <2>5. ProgressInv'
    BY <2>1, UsersAssumption, <2>2 DEF IInv, TypeOK, CleanInv, HolderInv, Inside, CsiPcs, AcePcs, H, CsiPart, ProgressInv, mei_csi_probe, Clients, Lives
  <2>6. OwnershipAgrees'
    BY <2>1, UsersAssumption, <2>2 DEF IInv, TypeOK, CleanInv, HolderInv, Inside, CsiPcs, AcePcs, OwnershipAgrees, mei_csi_probe, Clients, Lives
  <2>. QED
    BY <2>2, <2>3, <2>4, <2>5, <2>6
<1>. QED
  BY <1>1, <1>2, <1>3 DEF IInv

\* A client is registered.
LEMMA AceProbeKeeps ==
  ASSUME IInv, mei_ace_probe PROVE IInv'
<1> USE DEF vscVars, clientVars, userVars, wireVars, fwVars
<1>1. TypeOK'
  BY DEF IInv, TypeOK, CsiPcs, AcePcs, mei_ace_probe, Clients, Lives
<1>2. CountedInv'
  BY DEF IInv, TypeOK, CountedInv, mei_ace_probe, Clients, Lives
<1>3. CleanInv'
  <2> SUFFICES ASSUME ~disturbed' PROVE (HolderInv /\ CsiInv /\ AceInv /\ ProgressInv /\ OwnershipAgrees)'
    BY DEF CleanInv
  <2>1. ~disturbed /\ HolderInv /\ CsiInv /\ AceInv /\ ProgressInv /\ OwnershipAgrees
    BY DEF IInv, CleanInv, mei_ace_probe, Clients, Lives
  <2>2. HolderInv'
    BY <2>1, UsersAssumption DEF IInv, TypeOK, CleanInv, HolderInv, Inside, CsiPcs, AcePcs, mei_ace_probe, Clients, Lives
  <2>3. CsiInv'
    BY <2>1, UsersAssumption, <2>2 DEF IInv, TypeOK, CleanInv, HolderInv, Inside, CsiPcs, AcePcs, H, CsiInv, Quiet, CsiOwned, CsiSent, CsiAnswered, CsiStored, Owner, mei_ace_probe, Clients, Lives
  <2>4. AceInv'
    BY <2>1, UsersAssumption, <2>2 DEF IInv, TypeOK, CleanInv, HolderInv, Inside, CsiPcs, AcePcs, H, AceInv, Quiet, NotifyComing, AceSent, AceRefused, AceAnswered, AceStored, AceNotified, Owner, AceCmd, mei_ace_probe, Clients, Lives
  <2>5. ProgressInv'
    BY <2>1, UsersAssumption, <2>2 DEF IInv, TypeOK, CleanInv, HolderInv, Inside, CsiPcs, AcePcs, H, CsiPart, ProgressInv, mei_ace_probe, Clients, Lives
  <2>6. OwnershipAgrees'
    BY <2>1, UsersAssumption, <2>2 DEF IInv, TypeOK, CleanInv, HolderInv, Inside, CsiPcs, AcePcs, OwnershipAgrees, mei_ace_probe, Clients, Lives
  <2>. QED
    BY <2>2, <2>3, <2>4, <2>5, <2>6
<1>. QED
  BY <1>1, <1>2, <1>3 DEF IInv

\* An operation begins outside the mutex.
LEMMA StartKeeps ==
  ASSUME NEW u \in Users, NEW o \in Ops, IInv, Start(u, o) PROVE IInv'
<1> USE DEF vscVars, clientVars, userVars, wireVars, fwVars
<1>1. TypeOK'
  <2>1. k' \in [Users -> 0 .. MaxOps]
    BY UsersAssumption DEF IInv, TypeOK, Start
  <2>2. pc' \in [Users -> CsiPcs \cup AcePcs \cup {"idle", "vlock", "uaf"}] /\ ret' \in [Users -> {"none", "ok", "EAGAIN", "error"}]
    BY DEF IInv, TypeOK, Start, Goto
  <2>. QED
    BY <2>1, <2>2 DEF IInv, TypeOK, Start, Ops
<1>2. CountedInv'
  BY DEF IInv, TypeOK, CountedInv, Start, Goto
<1>3. CleanInv'
  <2> SUFFICES ASSUME ~disturbed' PROVE (HolderInv /\ CsiInv /\ AceInv /\ ProgressInv /\ OwnershipAgrees)'
    BY DEF CleanInv
  <2>1. ~disturbed /\ HolderInv /\ CsiInv /\ AceInv /\ ProgressInv /\ OwnershipAgrees
    BY DEF IInv, CleanInv, Start, Goto
  <2>2. HolderInv'
    BY <2>1, UsersAssumption DEF IInv, TypeOK, CleanInv, HolderInv, Inside, CsiPcs, AcePcs, Start, Goto
  <2>3. CsiInv'
    <3>1. vmutex' = vmutex /\ vmutex # u /\ UNCHANGED <<wireVars, done, got, fwVars>>
      BY <2>1, UsersAssumption DEF HolderInv, Inside, CsiPcs, AcePcs, Start, Goto
    <3>2. \A v \in Users \ {u} : pc'[v] = pc[v] /\ op'[v] = op[v] /\ ccmd'[v] = ccmd[v]
      BY DEF IInv, TypeOK, Start, Goto
    <3>3. vmutex # None => vmutex \in Users
      BY DEF IInv, TypeOK
    <3>. QED
      BY <2>1, <3>1, <3>2, <3>3, WireFrame
  <2>4. AceInv'
    <3>1. vmutex' = vmutex /\ vmutex # u /\ UNCHANGED <<wireVars, done, got, fwVars>>
      BY <2>1, UsersAssumption DEF HolderInv, Inside, CsiPcs, AcePcs, Start, Goto
    <3>2. \A v \in Users \ {u} : pc'[v] = pc[v] /\ op'[v] = op[v] /\ ccmd'[v] = ccmd[v]
      BY DEF IInv, TypeOK, Start, Goto
    <3>3. vmutex # None => vmutex \in Users
      BY DEF IInv, TypeOK
    <3>. QED
      BY <2>1, <3>1, <3>2, <3>3, WireFrame
  <2>5. ProgressInv'
    BY <2>1, UsersAssumption, <2>2 DEF IInv, TypeOK, CleanInv, HolderInv, Inside, CsiPcs, AcePcs, H, CsiPart, ProgressInv, Start, Goto
  <2>6. OwnershipAgrees'
    BY <2>1, UsersAssumption, <2>2 DEF IInv, TypeOK, CleanInv, HolderInv, Inside, CsiPcs, AcePcs, OwnershipAgrees, Start, Goto
  <2>. QED
    BY <2>2, <2>3, <2>4, <2>5, <2>6
<1>. QED
  BY <1>1, <1>2, <1>3 DEF IInv

\* vsc.mutex is taken with nothing under way.
LEMMA VscLockKeeps ==
  ASSUME NEW u \in Users, IInv, VscLock(u) PROVE IInv'
<1> USE DEF vscVars, clientVars, userVars, wireVars, fwVars
<1>1. TypeOK'
  BY DEF IInv, TypeOK, CsiPcs, AcePcs, VscLock, Goto
<1>2. CountedInv'
  BY DEF IInv, TypeOK, CountedInv, VscLock, Goto
<1>3. CleanInv'
  <2> SUFFICES ASSUME ~disturbed' PROVE (HolderInv /\ CsiInv /\ AceInv /\ ProgressInv /\ OwnershipAgrees)'
    BY DEF CleanInv
  <2>1. ~disturbed /\ HolderInv /\ CsiInv /\ AceInv /\ ProgressInv /\ OwnershipAgrees
    BY DEF IInv, CleanInv, VscLock, Goto
  <2>2. HolderInv'
    BY <2>1, UsersAssumption DEF IInv, TypeOK, CleanInv, HolderInv, Inside, CsiPcs, AcePcs, VscLock, Goto
  <2>3. CsiInv'
    BY <2>1, UsersAssumption, <2>2 DEF IInv, TypeOK, CleanInv, HolderInv, Inside, CsiPcs, AcePcs, H, CsiInv, Quiet, CsiOwned, CsiSent, CsiAnswered, CsiStored, Owner, VscLock, Goto
  <2>4. AceInv'
    BY <2>1, UsersAssumption, <2>2 DEF IInv, TypeOK, CleanInv, HolderInv, Inside, CsiPcs, AcePcs, H, AceInv, Quiet, NotifyComing, AceSent, AceRefused, AceAnswered, AceStored, AceNotified, Owner, AceCmd, VscLock, Goto
  <2>5. ProgressInv'
    BY <2>1, UsersAssumption, <2>2 DEF IInv, TypeOK, CleanInv, HolderInv, Inside, CsiPcs, AcePcs, H, CsiPart, ProgressInv, VscLock, Goto
  <2>6. OwnershipAgrees'
    BY <2>1, UsersAssumption, <2>2 DEF IInv, TypeOK, CleanInv, HolderInv, Inside, CsiPcs, AcePcs, OwnershipAgrees, VscLock, Goto
  <2>. QED
    BY <2>2, <2>3, <2>4, <2>5, <2>6
<1>. QED
  BY <1>1, <1>2, <1>3 DEF IInv

\* The callback is set or cleared first.
LEMMA CallbackKeeps ==
  ASSUME NEW u \in Users, IInv, csi_set_privacy_callback(u) PROVE IInv'
<1> USE DEF vscVars, clientVars, userVars, wireVars, fwVars
<1>1. TypeOK'
  BY DEF IInv, TypeOK, CsiPcs, AcePcs, csi_set_privacy_callback, Goto
<1>2. CountedInv'
  BY DEF IInv, TypeOK, CountedInv, csi_set_privacy_callback, Goto
<1>3. CleanInv'
  <2> SUFFICES ASSUME ~disturbed' PROVE (HolderInv /\ CsiInv /\ AceInv /\ ProgressInv /\ OwnershipAgrees)'
    BY DEF CleanInv
  <2>1. ~disturbed /\ HolderInv /\ CsiInv /\ AceInv /\ ProgressInv /\ OwnershipAgrees
    BY DEF IInv, CleanInv, csi_set_privacy_callback, Goto
  <2>2. HolderInv'
    BY <2>1, UsersAssumption DEF IInv, TypeOK, CleanInv, HolderInv, Inside, CsiPcs, AcePcs, csi_set_privacy_callback, Goto
  <2>3. CsiInv'
    BY <2>1, UsersAssumption, <2>2 DEF IInv, TypeOK, CleanInv, HolderInv, Inside, CsiPcs, AcePcs, H, CsiInv, Quiet, CsiOwned, CsiSent, CsiAnswered, CsiStored, Owner, csi_set_privacy_callback, Goto
  <2>4. AceInv'
    BY <2>1, UsersAssumption, <2>2 DEF IInv, TypeOK, CleanInv, HolderInv, Inside, CsiPcs, AcePcs, H, AceInv, Quiet, NotifyComing, AceSent, AceRefused, AceAnswered, AceStored, AceNotified, Owner, AceCmd, csi_set_privacy_callback, Goto
  <2>5. ProgressInv'
    BY <2>1, UsersAssumption, <2>2 DEF IInv, TypeOK, CleanInv, HolderInv, Inside, CsiPcs, AcePcs, H, CsiPart, ProgressInv, csi_set_privacy_callback, Goto
  <2>6. OwnershipAgrees'
    BY <2>1, UsersAssumption, <2>2 DEF IInv, TypeOK, CleanInv, HolderInv, Inside, CsiPcs, AcePcs, OwnershipAgrees, csi_set_privacy_callback, Goto
  <2>. QED
    BY <2>2, <2>3, <2>4, <2>5, <2>6
<1>. QED
  BY <1>1, <1>2, <1>3 DEF IInv

\* The module id is known, or the wait for it was interrupted.
LEMMA FwIdKeeps ==
  ASSUME NEW u \in Users, IInv, get_fw_id(u) \/ GetFwIdInterrupted(u) PROVE IInv'
<1> USE DEF vscVars, clientVars, userVars, wireVars, fwVars
<1>1. TypeOK'
  BY ZenonT(60) DEF IInv, TypeOK, CsiPcs, AcePcs, get_fw_id, GetFwIdInterrupted, Goto
<1>2. CountedInv'
  BY DEF IInv, TypeOK, CountedInv, get_fw_id, GetFwIdInterrupted, Goto
<1>3. CleanInv'
  <2> SUFFICES ASSUME ~disturbed' PROVE (HolderInv /\ CsiInv /\ AceInv /\ ProgressInv /\ OwnershipAgrees)'
    BY DEF CleanInv
  <2>1. ~disturbed /\ HolderInv /\ CsiInv /\ AceInv /\ ProgressInv /\ OwnershipAgrees
    BY DEF IInv, CleanInv, get_fw_id, GetFwIdInterrupted, Goto
  <2>2. HolderInv'
    BY <2>1, UsersAssumption DEF IInv, TypeOK, CleanInv, HolderInv, Inside, CsiPcs, AcePcs, get_fw_id, GetFwIdInterrupted, Goto
  <2>3. CsiInv'
    BY <2>1, UsersAssumption, <2>2 DEF IInv, TypeOK, CleanInv, HolderInv, Inside, CsiPcs, AcePcs, H, CsiInv, Quiet, CsiOwned, CsiSent, CsiAnswered, CsiStored, Owner, get_fw_id, GetFwIdInterrupted, Goto
  <2>4. AceInv'
    BY <2>1, UsersAssumption, <2>2 DEF IInv, TypeOK, CleanInv, HolderInv, Inside, CsiPcs, AcePcs, H, AceInv, Quiet, NotifyComing, AceSent, AceRefused, AceAnswered, AceStored, AceNotified, Owner, AceCmd, get_fw_id, GetFwIdInterrupted, Goto
  <2>5. ProgressInv'
    BY <2>1, UsersAssumption, <2>2 DEF IInv, TypeOK, CleanInv, HolderInv, Inside, CsiPcs, AcePcs, H, CsiPart, ProgressInv, get_fw_id, GetFwIdInterrupted, Goto
  <2>6. OwnershipAgrees'
    BY <2>1, UsersAssumption, <2>2 DEF IInv, TypeOK, CleanInv, HolderInv, Inside, CsiPcs, AcePcs, OwnershipAgrees, get_fw_id, GetFwIdInterrupted, Goto
  <2>. QED
    BY <2>2, <2>3, <2>4, <2>5, <2>6
<1>. QED
  BY <1>1, <1>2, <1>3 DEF IInv

\* The cmd_mutex of ACE.
LEMMA AceLockKeeps ==
  ASSUME NEW u \in Users, IInv, AceLock(u) PROVE IInv'
<1> USE DEF vscVars, clientVars, userVars, wireVars, fwVars
<1>1. TypeOK'
  BY DEF IInv, TypeOK, CsiPcs, AcePcs, AceLock, Goto, Clients
<1>2. CountedInv'
  BY DEF IInv, TypeOK, CountedInv, AceLock, Goto, Clients
<1>3. CleanInv'
  <2> SUFFICES ASSUME ~disturbed' PROVE (HolderInv /\ CsiInv /\ AceInv /\ ProgressInv /\ OwnershipAgrees)'
    BY DEF CleanInv
  <2>1. ~disturbed /\ HolderInv /\ CsiInv /\ AceInv /\ ProgressInv /\ OwnershipAgrees
    BY DEF IInv, CleanInv, AceLock, Goto, Clients
  <2>2. HolderInv'
    BY <2>1, UsersAssumption DEF IInv, TypeOK, CleanInv, HolderInv, Inside, CsiPcs, AcePcs, AceLock, Goto, Clients
  <2>3. CsiInv'
    BY <2>1, UsersAssumption, <2>2 DEF IInv, TypeOK, CleanInv, HolderInv, Inside, CsiPcs, AcePcs, H, CsiInv, Quiet, CsiOwned, CsiSent, CsiAnswered, CsiStored, Owner, AceLock, Goto, Clients
  <2>4. AceInv'
    BY <2>1, UsersAssumption, <2>2 DEF IInv, TypeOK, CleanInv, HolderInv, Inside, CsiPcs, AcePcs, H, AceInv, Quiet, NotifyComing, AceSent, AceRefused, AceAnswered, AceStored, AceNotified, Owner, AceCmd, AceLock, Goto, Clients
  <2>5. ProgressInv'
    BY <2>1, UsersAssumption, <2>2 DEF IInv, TypeOK, CleanInv, HolderInv, Inside, CsiPcs, AcePcs, H, CsiPart, ProgressInv, AceLock, Goto, Clients
  <2>6. OwnershipAgrees'
    BY <2>1, UsersAssumption, <2>2 DEF IInv, TypeOK, CleanInv, HolderInv, Inside, CsiPcs, AcePcs, OwnershipAgrees, AceLock, Goto, Clients
  <2>. QED
    BY <2>2, <2>3, <2>4, <2>5, <2>6
<1>. QED
  BY <1>1, <1>2, <1>3 DEF IInv

\* The clients the holder has no command at are quiet.
LEMMA ClientQuiet ==
  ASSUME IInv, ~disturbed, NEW u \in Users, Inside(u)
  PROVE  /\ vmutex = u /\ u # None
         /\ pc[u] # "csi_wait" => Quiet("csi", {"response"})
         /\ pc[u] \notin {"ace_reply", "ace_notify"} => Quiet("ace", {"reply", "notify"})
BY UsersAssumption DEF IInv, CleanInv, HolderInv, CsiInv, AceInv, H

\* What Return assigns is of its type.
LEMMA ReturnTypes ==
  ASSUME NEW u \in Users, NEW x \in Clients, NEW r \in {"ok", "error"}, IInv, Return(u, x, r),
         UNCHANGED <<life, got, cb, woken, idreq, op, k, idok, fromFw, fwVars>>,
         toFw' \in [Clients -> Seq(Messages)], done' \in [Slots -> BOOLEAN], disturbed' \in BOOLEAN
  PROVE  TypeOK' /\ CountedInv'
<1>1. TypeOK'
  <2>1. (r = "ok") \in BOOLEAN
    OBVIOUS
  <2>2. last' \in [op : Ops \cup {None}, by : Users \cup {None}, ok : BOOLEAN]
    BY <2>1 DEF IInv, TypeOK, Return
  <2>3. /\ vmutex' \in Users \cup {None} /\ cmutex' \in [Clients -> Users \cup {None}]
        /\ pc' \in [Users -> CsiPcs \cup AcePcs \cup {"idle", "vlock", "uaf"}]
        /\ ret' \in [Users -> {"none", "ok", "EAGAIN", "error"}]
    BY DEF IInv, TypeOK, Return, Goto
  <2>. QED
    BY <2>2, <2>3 DEF IInv, TypeOK, Return, fwVars
<1>2. CountedInv'
  BY DEF IInv, TypeOK, CountedInv, Return, Goto
<1>. QED
  BY <1>1, <1>2

\* An operation that returns leaves nothing under way.
LEMMA ReturnKeeps ==
  ASSUME NEW u \in Users, NEW x \in Clients, NEW r \in {"ok", "error"}, IInv, Inside(u), Return(u, x, r),
         UNCHANGED <<life, got, cb, woken, idreq, op, k, idok, wireVars, fwVars>>,
         done' \in [Slots -> BOOLEAN], disturbed' \in BOOLEAN, ~disturbed' => ~disturbed,
         ~disturbed' => Quiet("csi", {"response"})' /\ Quiet("ace", {"reply", "notify"})' /\ OwnershipAgrees'
  PROVE  IInv'
<1>1. toFw' \in [Clients -> Seq(Messages)]
  BY DEF IInv, TypeOK, wireVars
<1>2. TypeOK' /\ CountedInv'
  BY <1>1, ReturnTypes DEF wireVars
<1>3. CleanInv'
  <2> SUFFICES ASSUME ~disturbed' PROVE (HolderInv /\ CsiInv /\ AceInv /\ ProgressInv /\ OwnershipAgrees)'
    BY DEF CleanInv
  <2>1. HolderInv'
    BY UsersAssumption DEF IInv, TypeOK, CleanInv, HolderInv, Inside, CsiPcs, AcePcs, Return, Goto
  <2>2. ProgressInv'
    BY DEF ProgressInv, H, Return
  <2>. QED
    BY <2>1, <2>2 DEF CsiInv, AceInv
<1>. QED
  BY <1>2, <1>3 DEF IInv

\* The holder goes on to another step.
LEMMA HolderGoes ==
  ASSUME NEW u \in Users, NEW p \in CsiPcs \cup AcePcs, IInv, ~disturbed, Inside(u), Goto(u, p),
         UNCHANGED <<vmutex, life>>
  PROVE  HolderInv' /\ pc'[u] = p /\ vmutex' = u /\ u # None
BY UsersAssumption DEF IInv, TypeOK, CleanInv, HolderInv, Inside, CsiPcs, AcePcs, Goto

\* The command of the holder is the only thing under way at ACE.
LEMMA AceSendKeeps ==
  ASSUME NEW u \in Users, IInv, AceSend(u) PROVE IInv'
<1>0. PICK m \in Messages : m = Command(u, AceCmd(u), idok[u])
  BY CommandType DEF IInv, TypeOK, AceSend, AceCmd, Cmds
<1>1. Inside(u) /\ done' \in [Slots -> BOOLEAN]
  BY DEF IInv, TypeOK, AceSend, Inside, CsiPcs, AcePcs
<1>2. ~disturbed => Quiet("csi", {"response"}) /\ Quiet("ace", {"reply", "notify"}) /\ vmutex = u /\ u # None
  BY <1>1, ClientQuiet DEF AceSend
<1>3. CASE Return(u, "ace", "error") /\ UNCHANGED <<toFw, disturbed>>
  <2>1. ~disturbed => (Quiet("csi", {"response"}) /\ Quiet("ace", {"reply", "notify"}) /\ OwnershipAgrees)'
    BY <1>2, <1>3 DEF Quiet, OwnershipAgrees, AceSend, Return, IInv, TypeOK, Clients, Slots
  <2>2. UNCHANGED <<life, got, cb, woken, idreq, op, k, idok, wireVars, fwVars, disturbed>>
    BY <1>3 DEF AceSend, wireVars, fwVars
  <2>3. disturbed' \in BOOLEAN /\ (~disturbed' => ~disturbed)
    BY <1>3 DEF IInv, TypeOK
  <2>4. ~disturbed' => Quiet("csi", {"response"})' /\ Quiet("ace", {"reply", "notify"})' /\ OwnershipAgrees'
    BY <2>1, <2>3
  <2>. QED
    BY <1>1, <1>3, <2>2, <2>3, <2>4, ReturnKeeps DEF Clients
<1>4. CASE /\ toFw' = [toFw EXCEPT !["ace"] = Append(@, m)] /\ Goto(u, "ace_reply")
           /\ UNCHANGED <<vscVars, cmutex, ccmd, ret, last, disturbed>>
  <2>1. UNCHANGED <<life, got, cb, woken, idreq, op, k, idok, fromFw, fwVars, disturbed, vscVars, cmutex, ccmd, ret, last>>
    BY <1>4 DEF AceSend
  <2>2. TypeOK'
    <3>1. Append(toFw["ace"], m) \in Seq(Messages)
      BY <1>1, AppendProperties DEF IInv, TypeOK, Clients
    <3>2. toFw' \in [Clients -> Seq(Messages)] /\ pc' \in [Users -> CsiPcs \cup AcePcs \cup {"idle", "vlock", "uaf"}]
      BY <1>4, <3>1 DEF IInv, TypeOK, Goto, CsiPcs, AcePcs
    <3>. QED
      BY <1>1, <2>1, <3>2 DEF IInv, TypeOK, vscVars, fwVars
  <2>3. CountedInv'
    BY <1>4, <2>1 DEF IInv, TypeOK, CountedInv, Goto, AceSend
  <2>4. CleanInv'
    <3> SUFFICES ASSUME ~disturbed' PROVE (HolderInv /\ CsiInv /\ AceInv /\ ProgressInv /\ OwnershipAgrees)'
      BY DEF CleanInv
    <3>1. ~disturbed
      BY <2>1
    <3>2. HolderInv' /\ pc'[u] = "ace_reply" /\ vmutex' = u /\ u # None
      BY <1>1, <1>4, <2>1, <3>1, HolderGoes DEF CsiPcs, AcePcs, vscVars
    <3>3. Quiet("csi", {"response"})'
      BY <1>2, <1>4, <2>1, <3>1 DEF Quiet, AceSend, IInv, TypeOK, Clients, Slots
    <3>4. AceSent(m)'
      <4>1. toFw["ace"] = <<>> /\ fromFw["ace"] = <<>> /\ toFw \in [Clients -> Seq(Messages)] /\ done \in [Slots -> BOOLEAN]
        BY <1>2, <3>1 DEF Quiet, IInv, TypeOK
      <4>2. toFw'["ace"] = <<m>> /\ fromFw'["ace"] = <<>>
        BY <1>4, <2>1, <4>1 DEF Clients
      <4>3. ~done'["reply"] /\ ~done'["notify"]
        BY <4>1 DEF AceSend, Slots
      <4>4. m.arg = Owner(H)' /\ m.cmd = AceCmd(u) /\ AceCmd(H)' = AceCmd(u)
        BY <1>0, <2>1, <3>2 DEF Command, Owner, H, AceCmd
      <4>. QED
        BY <2>1, <3>2, <4>2, <4>3, <4>4 DEF AceSent, H
    <3>5. CsiInv' /\ AceInv'
      BY <1>1, <3>2, <3>3, <3>4 DEF CsiInv, AceInv, H
    <3>6. ProgressInv' /\ OwnershipAgrees'
      BY <1>2, <2>1, <3>1, <3>2 DEF IInv, CleanInv, ProgressInv, H, CsiPart, AcePcs, CsiPcs, OwnershipAgrees, AceSend, vscVars, fwVars
    <3>. QED
      BY <3>2, <3>5, <3>6
  <2>. QED
    BY <2>2, <2>3, <2>4 DEF IInv
<1>5. CASE /\ toFw' = [toFw EXCEPT !["ace"] = Append(@, m)] /\ Return(u, "ace", "error")
           /\ disturbed' = TRUE
  <2>1. UNCHANGED <<life, got, cb, woken, idreq, op, k, idok, fromFw, fwVars>>
    BY DEF AceSend
  <2>2. toFw' \in [Clients -> Seq(Messages)]
    <3>1. Append(toFw["ace"], m) \in Seq(Messages)
      BY AppendProperties DEF IInv, TypeOK, Clients
    <3>. QED
      BY <1>5, <3>1 DEF IInv, TypeOK
  <2>3. TypeOK' /\ CountedInv'
    BY <1>1, <1>5, <2>1, <2>2, ReturnTypes DEF Clients
  <2>. QED
    BY <1>5, <2>3 DEF IInv, CleanInv
<1>. QED
  BY <1>0, <1>3, <1>4, <1>5 DEF AceSend

\* The command of the holder is the only thing under way at CSI.
LEMMA CsiSendKeeps ==
  ASSUME NEW u \in Users, IInv, CsiSend(u) PROVE IInv'
<1>0. PICK m \in Messages : m = Command(u, ccmd[u], TRUE)
  BY CommandType DEF IInv, TypeOK, CsiSend, AceCmd, Cmds
<1>1. Inside(u) /\ done' \in [Slots -> BOOLEAN]
  BY DEF IInv, TypeOK, CsiSend, Inside, CsiPcs, AcePcs
<1>2. ~disturbed => Quiet("csi", {"response"}) /\ Quiet("ace", {"reply", "notify"}) /\ vmutex = u /\ u # None
  BY <1>1, ClientQuiet DEF CsiSend
<1>3. CASE Return(u, "csi", "error") /\ UNCHANGED <<toFw, disturbed>>
  <2>1. ~disturbed => (Quiet("csi", {"response"}) /\ Quiet("ace", {"reply", "notify"}) /\ OwnershipAgrees)'
    BY <1>2, <1>3 DEF Quiet, OwnershipAgrees, CsiSend, Return, IInv, TypeOK, Clients, Slots
  <2>2. UNCHANGED <<life, got, cb, woken, idreq, op, k, idok, wireVars, fwVars, disturbed>>
    BY <1>3 DEF CsiSend, wireVars, fwVars
  <2>3. disturbed' \in BOOLEAN /\ (~disturbed' => ~disturbed)
    BY <1>3 DEF IInv, TypeOK
  <2>4. ~disturbed' => Quiet("csi", {"response"})' /\ Quiet("ace", {"reply", "notify"})' /\ OwnershipAgrees'
    BY <2>1, <2>3
  <2>. QED
    BY <1>1, <1>3, <2>2, <2>3, <2>4, ReturnKeeps DEF Clients
<1>4. CASE /\ toFw' = [toFw EXCEPT !["csi"] = Append(@, m)] /\ Goto(u, "csi_wait")
           /\ UNCHANGED <<vscVars, cmutex, ccmd, ret, last, disturbed>>
  <2>1. UNCHANGED <<life, got, cb, woken, idreq, op, k, idok, fromFw, fwVars, disturbed, vscVars, cmutex, ccmd, ret, last>>
    BY <1>4 DEF CsiSend
  <2>2. TypeOK'
    <3>1. Append(toFw["csi"], m) \in Seq(Messages)
      BY <1>1, AppendProperties DEF IInv, TypeOK, Clients
    <3>2. toFw' \in [Clients -> Seq(Messages)] /\ pc' \in [Users -> CsiPcs \cup AcePcs \cup {"idle", "vlock", "uaf"}]
      BY <1>4, <3>1 DEF IInv, TypeOK, Goto, CsiPcs, AcePcs
    <3>. QED
      BY <1>1, <2>1, <3>2 DEF IInv, TypeOK, vscVars, fwVars
  <2>3. CountedInv'
    BY <1>4, <2>1 DEF IInv, TypeOK, CountedInv, Goto, CsiSend
  <2>4. CleanInv'
    <3> SUFFICES ASSUME ~disturbed' PROVE (HolderInv /\ CsiInv /\ AceInv /\ ProgressInv /\ OwnershipAgrees)'
      BY DEF CleanInv
    <3>1. ~disturbed
      BY <2>1
    <3>2. HolderInv' /\ pc'[u] = "csi_wait" /\ vmutex' = u /\ u # None
      BY <1>1, <1>4, <2>1, <3>1, HolderGoes DEF CsiPcs, AcePcs, vscVars
    <3>3. Quiet("ace", {"reply", "notify"})'
      BY <1>2, <1>4, <2>1, <3>1 DEF Quiet, CsiSend, IInv, TypeOK, Clients, Slots
    <3>4. CsiSent(m)'
      <4>1. toFw["csi"] = <<>> /\ fromFw["csi"] = <<>> /\ toFw \in [Clients -> Seq(Messages)] /\ done \in [Slots -> BOOLEAN]
        BY <1>2, <3>1 DEF Quiet, IInv, TypeOK
      <4>2. toFw'["csi"] = <<m>> /\ fromFw'["csi"] = <<>>
        BY <1>4, <2>1, <4>1 DEF Clients
      <4>3. ~done'["response"]
        BY <4>1 DEF CsiSend, Slots
      <4>4. m.arg = Owner(H)' /\ m.cmd = ccmd[u] /\ AceCmd(H)' = AceCmd(u)
        BY <1>0, <2>1, <3>2 DEF Command, Owner, H, AceCmd
      <4>. QED
        BY <2>1, <3>2, <4>2, <4>3, <4>4 DEF CsiSent, H
    <3>5. CsiInv' /\ AceInv'
      BY <1>1, <3>2, <3>3, <3>4 DEF CsiInv, AceInv, H
    <3>6. ProgressInv' /\ OwnershipAgrees'
      BY <1>2, <2>1, <3>1, <3>2 DEF IInv, CleanInv, ProgressInv, H, CsiPart, AcePcs, CsiPcs, OwnershipAgrees, CsiSend, vscVars, fwVars
    <3>. QED
      BY <3>2, <3>5, <3>6
  <2>. QED
    BY <2>2, <2>3, <2>4 DEF IInv
<1>5. CASE /\ toFw' = [toFw EXCEPT !["csi"] = Append(@, m)] /\ Return(u, "csi", "error")
           /\ disturbed' = TRUE
  <2>1. UNCHANGED <<life, got, cb, woken, idreq, op, k, idok, fromFw, fwVars>>
    BY DEF CsiSend
  <2>2. toFw' \in [Clients -> Seq(Messages)]
    <3>1. Append(toFw["csi"], m) \in Seq(Messages)
      BY AppendProperties DEF IInv, TypeOK, Clients
    <3>. QED
      BY <1>5, <3>1 DEF IInv, TypeOK
  <2>3. TypeOK' /\ CountedInv'
    BY <1>1, <1>5, <2>1, <2>2, ReturnTypes DEF Clients
  <2>. QED
    BY <1>5, <2>3 DEF IInv, CleanInv
<1>. QED
  BY <1>0, <1>3, <1>4, <1>5 DEF CsiSend

\* After a refusal nothing more comes; after a good reply the notification does.
LEMMA AceReplyKeeps ==
  ASSUME NEW u \in Users, IInv, AceReply(u) PROVE IInv'
<1>1. Inside(u) /\ done' \in [Slots -> BOOLEAN] /\ pc[u] = "ace_reply" /\ done["reply"]
      /\ ~done'["reply"] /\ done'["notify"] = done["notify"] /\ done'["response"] = done["response"]
  BY DEF IInv, TypeOK, AceReply, Inside, AcePcs, Slots
<1>2. UNCHANGED <<life, got, cb, woken, idreq, op, k, idok, wireVars, fwVars, disturbed>>
  BY DEF AceReply
<1>3. ~disturbed => vmutex = u /\ u # None /\ Quiet("csi", {"response"}) /\ AceStored
  BY <1>1, ClientQuiet DEF IInv, CleanInv, AceInv, Quiet, H, AceSent, AceRefused, AceAnswered
<1>4. CASE Return(u, "ace", "error") /\ ~(got["reply"].cmd = AceCmd(u) /\ got["reply"].ok)
  <2>1. ~disturbed => Quiet("csi", {"response"})'
    BY <1>1, <1>2, <1>3 DEF Quiet, wireVars
  <2>2. ~disturbed => Quiet("ace", {"reply", "notify"})'
    BY <1>1, <1>2, <1>3, <1>4 DEF AceStored, Quiet, wireVars, H
  <2>3. OwnershipAgrees'
    BY <1>4 DEF OwnershipAgrees, Return
  <2>. QED
    BY <1>1, <1>2, <1>4, <2>1, <2>2, <2>3, ReturnKeeps DEF Clients, IInv, TypeOK
<1>5. CASE Goto(u, "ace_notify") /\ UNCHANGED <<vscVars, cmutex, ccmd, ret, last>> /\ got["reply"].ok
  <2>1. TypeOK'
    <3>1. pc' \in [Users -> CsiPcs \cup AcePcs \cup {"idle", "vlock", "uaf"}]
      BY <1>5 DEF IInv, TypeOK, Goto, AcePcs
    <3>. QED
      BY <1>1, <1>2, <1>5, <3>1 DEF IInv, TypeOK, vscVars, wireVars, fwVars
  <2>2. CountedInv'
    BY <1>1, <1>2, <1>5 DEF IInv, TypeOK, CountedInv, Goto
  <2>3. CleanInv'
    <3> SUFFICES ASSUME ~disturbed' PROVE (HolderInv /\ CsiInv /\ AceInv /\ ProgressInv /\ OwnershipAgrees)'
      BY DEF CleanInv
    <3>1. ~disturbed
      BY <1>2
    <3>2. HolderInv' /\ pc'[u] = "ace_notify" /\ vmutex' = u /\ u # None
      BY <1>1, <1>2, <1>5, <3>1, HolderGoes DEF AcePcs, vscVars
    <3>3. CsiInv'
      BY <1>1, <1>2, <1>3, <3>1 DEF CsiInv, Quiet, wireVars
    <3>4. AceInv'
      BY <1>1, <1>2, <1>3, <1>5, <3>1, <3>2 DEF AceInv, AceStored, AceNotified, NotifyComing, H, Owner, wireVars, fwVars
    <3>5. ProgressInv' /\ OwnershipAgrees'
      BY <1>1, <1>2, <1>3, <1>5, <3>1, <3>2 DEF IInv, CleanInv, ProgressInv, H, CsiPart, AcePcs, OwnershipAgrees, vscVars, fwVars
    <3>. QED
      BY <3>2, <3>3, <3>4, <3>5
  <2>. QED
    BY <2>1, <2>2, <2>3 DEF IInv
<1>. QED
  BY <1>4, <1>5 DEF AceReply

\* The notification says that the camera is with the new owner.
LEMMA AceNotifyKeeps ==
  ASSUME NEW u \in Users, IInv, AceNotify(u) PROVE IInv'
<1>1. Inside(u) /\ done' \in [Slots -> BOOLEAN] /\ pc[u] = "ace_notify" /\ done["notify"]
      /\ ~done'["notify"] /\ done'["reply"] = done["reply"] /\ done'["response"] = done["response"]
  BY DEF IInv, TypeOK, AceNotify, Inside, AcePcs, Slots
<1>2. UNCHANGED <<life, got, cb, woken, idreq, op, k, idok, wireVars, fwVars, disturbed>>
  BY DEF AceNotify
<1>3. ~disturbed => vmutex = u /\ u # None /\ Quiet("csi", {"response"}) /\ AceNotified /\ ProgressInv
  BY <1>1, ClientQuiet DEF IInv, CleanInv, AceInv, Quiet, H
<1>4. ~disturbed => (Quiet("csi", {"response"}) /\ Quiet("ace", {"reply", "notify"}))'
  BY <1>1, <1>2, <1>3 DEF AceNotified, NotifyComing, Quiet, wireVars
<1>5. CASE Return(u, "ace", "error")
  <2>1. OwnershipAgrees'
    BY <1>5 DEF OwnershipAgrees, Return
  <2>. QED
    BY <1>1, <1>2, <1>4, <1>5, <2>1, ReturnKeeps DEF Clients, IInv, TypeOK
<1>6. CASE Return(u, "ace", "ok") /\ op[u] = "release"
  <2>1. ~disturbed => OwnershipAgrees'
    BY <1>1, <1>2, <1>3, <1>6 DEF OwnershipAgrees, Return, AceNotified, Owner, H, ProgressInv, AcePcs, fwVars
  <2>. QED
    BY <1>1, <1>2, <1>4, <1>6, <2>1, ReturnKeeps DEF Clients, IInv, TypeOK
<1>7. CASE /\ op[u] # "release"
           /\ cmutex' = [cmutex EXCEPT !["ace"] = None] /\ ccmd' = [ccmd EXCEPT ![u] = "set_owner"]
           /\ Goto(u, "csi_lock") /\ UNCHANGED <<vscVars, ret, last>>
  <2>1. TypeOK'
    <3>1. /\ pc' \in [Users -> CsiPcs \cup AcePcs \cup {"idle", "vlock", "uaf"}]
          /\ cmutex' \in [Clients -> Users \cup {None}] /\ ccmd' \in [Users -> {"set_owner", "set_mipi_conf"}]
      BY <1>7 DEF IInv, TypeOK, Goto, CsiPcs
    <3>. QED
      BY <1>1, <1>2, <1>7, <3>1 DEF IInv, TypeOK, vscVars, wireVars, fwVars
  <2>2. CountedInv'
    BY <1>1, <1>2, <1>7 DEF IInv, TypeOK, CountedInv, Goto
  <2>3. CleanInv'
    <3> SUFFICES ASSUME ~disturbed' PROVE (HolderInv /\ CsiInv /\ AceInv /\ ProgressInv /\ OwnershipAgrees)'
      BY DEF CleanInv
    <3>1. ~disturbed /\ op[u] = "acquire"
      BY <1>2, <1>7 DEF IInv, TypeOK, Ops
    <3>2. HolderInv' /\ pc'[u] = "csi_lock" /\ vmutex' = u /\ u # None
      BY <1>1, <1>2, <1>7, <3>1, HolderGoes DEF CsiPcs, vscVars
    <3>3. CsiInv' /\ AceInv'
      BY <1>2, <1>4 DEF CsiInv, AceInv
    <3>4. camOwner' = "IPU" /\ ccmd'[u] = "set_owner" /\ cb' = u
      BY <1>1, <1>2, <1>3, <1>7, <3>1 DEF AceNotified, Owner, H, fwVars, IInv, TypeOK, ProgressInv
    <3>5. ProgressInv' /\ OwnershipAgrees'
      BY <1>2, <3>1, <3>2, <3>4 DEF ProgressInv, H, CsiPart, AcePcs, OwnershipAgrees
    <3>. QED
      BY <3>2, <3>3, <3>5
  <2>. QED
    BY <2>1, <2>2, <2>3 DEF IInv
<1>. QED
  BY <1>5, <1>6, <1>7 DEF AceNotify, AceSucceeded

\* A good response to the owner command says that the link is with the new
\* owner.
LEMMA CsiResponseKeeps ==
  ASSUME NEW u \in Users, IInv, CsiResponse(u) PROVE IInv'
<1>1. Inside(u) /\ done' \in [Slots -> BOOLEAN] /\ pc[u] = "csi_wait" /\ done["response"]
      /\ ~done'["response"] /\ done'["reply"] = done["reply"] /\ done'["notify"] = done["notify"]
  BY DEF IInv, TypeOK, CsiResponse, Inside, CsiPcs, Slots
<1>2. UNCHANGED <<life, got, cb, woken, idreq, op, k, idok, wireVars, fwVars, disturbed>>
  BY DEF CsiResponse
<1>3. ~disturbed => vmutex = u /\ u # None /\ Quiet("ace", {"reply", "notify"}) /\ CsiStored /\ ProgressInv
  BY <1>1, ClientQuiet DEF IInv, CleanInv, CsiInv, Quiet, H, CsiSent, CsiAnswered
<1>4. ~disturbed => (Quiet("csi", {"response"}) /\ Quiet("ace", {"reply", "notify"}))'
  BY <1>1, <1>2, <1>3 DEF CsiStored, Quiet, wireVars
<1>5. CASE Return(u, "csi", "error")
  <2>1. OwnershipAgrees'
    BY <1>5 DEF OwnershipAgrees, Return
  <2>. QED
    BY <1>1, <1>2, <1>4, <1>5, <2>1, ReturnKeeps DEF Clients, IInv, TypeOK
<1>6. CASE Return(u, "csi", "ok") /\ ccmd[u] = "set_mipi_conf"
  <2>1. ~disturbed => OwnershipAgrees'
    <3> SUFFICES ASSUME ~disturbed PROVE OwnershipAgrees'
      OBVIOUS
    <3>1. op[u] = "acquire"
      BY <1>1, <1>3, <1>6 DEF ProgressInv, H, CsiPart, IInv, TypeOK, Ops
    <3>2. camOwner = "IPU" /\ csiOwner = "IPU" /\ cb = u
      BY <1>1, <1>3, <1>6, <3>1 DEF ProgressInv, H, CsiPart
    <3>. QED
      BY <1>2, <1>6, <3>1, <3>2 DEF OwnershipAgrees, Return, fwVars
  <2>. QED
    BY <1>1, <1>2, <1>4, <1>6, <2>1, ReturnKeeps DEF Clients, IInv, TypeOK
<1>7. CASE /\ ccmd[u] # "set_mipi_conf" /\ got["response"].ok
           /\ cmutex' = [cmutex EXCEPT !["csi"] = None] /\ ccmd' = [ccmd EXCEPT ![u] = "set_mipi_conf"]
           /\ Goto(u, IF op[u] = "acquire" THEN "csi_lock" ELSE "ace_id") /\ UNCHANGED <<vscVars, ret, last>>
  <2>1. PICK p \in {"csi_lock", "ace_id"} : Goto(u, p) /\ p = IF op[u] = "acquire" THEN "csi_lock" ELSE "ace_id"
    BY <1>7
  <2>2. TypeOK'
    <3>1. /\ pc' \in [Users -> CsiPcs \cup AcePcs \cup {"idle", "vlock", "uaf"}]
          /\ cmutex' \in [Clients -> Users \cup {None}] /\ ccmd' \in [Users -> {"set_owner", "set_mipi_conf"}]
      BY <1>7, <2>1 DEF IInv, TypeOK, Goto, CsiPcs, AcePcs
    <3>. QED
      BY <1>1, <1>2, <1>7, <3>1 DEF IInv, TypeOK, vscVars, wireVars, fwVars
  <2>3. CountedInv'
    BY <1>1, <1>2, <2>1 DEF IInv, TypeOK, CountedInv, Goto
  <2>4. CleanInv'
    <3> SUFFICES ASSUME ~disturbed' PROVE (HolderInv /\ CsiInv /\ AceInv /\ ProgressInv /\ OwnershipAgrees)'
      BY DEF CleanInv
    <3>1. ~disturbed /\ ccmd[u] = "set_owner" /\ op[u] \in {"acquire", "release"}
      BY <1>2, <1>7 DEF IInv, TypeOK, Ops
    <3>2. HolderInv' /\ pc'[u] = p /\ vmutex' = u /\ u # None
      BY <1>1, <1>2, <1>7, <2>1, <3>1, HolderGoes DEF CsiPcs, AcePcs, vscVars
    <3>3. CsiInv' /\ AceInv'
      BY <1>2, <1>4 DEF CsiInv, AceInv
    <3>4. csiOwner = Owner(u)
      BY <1>3, <1>7, <3>1 DEF CsiStored, CsiOwned, H
    <3>5. /\ op[u] = "acquire" => camOwner = "IPU" /\ cb = u
          /\ op[u] = "release" => cb = None
      BY <1>1, <1>3, <3>1 DEF ProgressInv, H, CsiPart
    <3>6. ProgressInv' /\ OwnershipAgrees'
      BY <1>2, <2>1, <3>1, <3>2, <3>4, <3>5 DEF ProgressInv, H, CsiPart, AcePcs, OwnershipAgrees, Owner, fwVars
    <3>. QED
      BY <3>2, <3>3, <3>6
  <2>. QED
    BY <2>2, <2>3, <2>4 DEF IInv
<1>. QED
  BY <1>5, <1>6, <1>7 DEF CsiResponse, CsiSucceeded

\* The answer may come late: the invariant sets this aside.
LEMMA TimeoutKeeps ==
  ASSUME NEW u \in Users, IInv, AceTimeout(u) \/ CsiTimeout(u) PROVE IInv'
<1>1. Inside(u) /\ disturbed' = TRUE
  BY DEF AceTimeout, CsiTimeout, Inside, CsiPcs, AcePcs
<1>2. PICK x \in Clients : Return(u, x, "error")
  BY DEF AceTimeout, CsiTimeout, Clients
<1>3. UNCHANGED <<life, done, got, cb, woken, idreq, op, k, idok, wireVars, fwVars>>
  BY DEF AceTimeout, CsiTimeout
<1>. QED
  BY <1>1, <1>2, <1>3, ReturnKeeps DEF IInv, TypeOK

\* The cmd_mutex of CSI.
LEMMA CsiLockKeeps ==
  ASSUME NEW u \in Users, IInv, CsiLock(u) PROVE IInv'
<1> USE DEF vscVars, clientVars, userVars, wireVars, fwVars
<1>1. TypeOK'
  BY DEF IInv, TypeOK, CsiPcs, AcePcs, CsiLock, Goto, Clients
<1>2. CountedInv'
  BY DEF IInv, TypeOK, CountedInv, CsiLock, Goto, Clients
<1>3. CleanInv'
  <2> SUFFICES ASSUME ~disturbed' PROVE (HolderInv /\ CsiInv /\ AceInv /\ ProgressInv /\ OwnershipAgrees)'
    BY DEF CleanInv
  <2>1. ~disturbed /\ HolderInv /\ CsiInv /\ AceInv /\ ProgressInv /\ OwnershipAgrees
    BY DEF IInv, CleanInv, CsiLock, Goto, Clients
  <2>2. HolderInv'
    BY <2>1, UsersAssumption DEF IInv, TypeOK, CleanInv, HolderInv, Inside, CsiPcs, AcePcs, CsiLock, Goto, Clients
  <2>3. CsiInv'
    BY <2>1, UsersAssumption, <2>2 DEF IInv, TypeOK, CleanInv, HolderInv, Inside, CsiPcs, AcePcs, H, CsiInv, Quiet, CsiOwned, CsiSent, CsiAnswered, CsiStored, Owner, CsiLock, Goto, Clients
  <2>4. AceInv'
    BY <2>1, UsersAssumption, <2>2 DEF IInv, TypeOK, CleanInv, HolderInv, Inside, CsiPcs, AcePcs, H, AceInv, Quiet, NotifyComing, AceSent, AceRefused, AceAnswered, AceStored, AceNotified, Owner, AceCmd, CsiLock, Goto, Clients
  <2>5. ProgressInv'
    BY <2>1, UsersAssumption, <2>2 DEF IInv, TypeOK, CleanInv, HolderInv, Inside, CsiPcs, AcePcs, H, CsiPart, ProgressInv, CsiLock, Goto, Clients
  <2>6. OwnershipAgrees'
    BY <2>1, UsersAssumption, <2>2 DEF IInv, TypeOK, CleanInv, HolderInv, Inside, CsiPcs, AcePcs, OwnershipAgrees, CsiLock, Goto, Clients
  <2>. QED
    BY <2>2, <2>3, <2>4, <2>5, <2>6
<1>. QED
  BY <1>1, <1>2, <1>3 DEF IInv

\* A client is only freed after its removal.
LEMMA UseAfterFreeKeeps ==
  ASSUME NEW u \in Users, IInv, UseAfterFree(u) PROVE IInv'
<1> USE DEF vscVars, clientVars, userVars, wireVars, fwVars
<1>1. TypeOK'
  BY DEF IInv, TypeOK, CsiPcs, AcePcs, UseAfterFree, Goto, Clients, CsiPcs, AcePcs
<1>2. CountedInv'
  BY DEF IInv, TypeOK, CountedInv, UseAfterFree, Goto, Clients, CsiPcs, AcePcs
<1>3. CleanInv'
  <2> SUFFICES ASSUME ~disturbed' PROVE (HolderInv /\ CsiInv /\ AceInv /\ ProgressInv /\ OwnershipAgrees)'
    BY DEF CleanInv
  <2>1. ~disturbed /\ HolderInv /\ CsiInv /\ AceInv /\ ProgressInv /\ OwnershipAgrees
    BY DEF IInv, CleanInv, UseAfterFree, Goto, Clients, CsiPcs, AcePcs
  <2>2. HolderInv'
    BY <2>1 DEF HolderInv, UseAfterFree, Clients
  <2>3. CsiInv'
    BY <2>1 DEF HolderInv, UseAfterFree, Clients
  <2>4. AceInv'
    BY <2>1 DEF HolderInv, UseAfterFree, Clients
  <2>5. ProgressInv'
    BY <2>1 DEF HolderInv, UseAfterFree, Clients
  <2>6. OwnershipAgrees'
    BY <2>1 DEF HolderInv, UseAfterFree, Clients
  <2>. QED
    BY <2>2, <2>3, <2>4, <2>5, <2>6
<1>. QED
  BY <1>1, <1>2, <1>3 DEF IInv

\* A message that is handled leaves its queue.
LEMMA FwTypes ==
  ASSUME IInv, NEW x \in Clients
  PROVE  /\ toFw[x] # <<>> => Head(toFw[x]) \in Messages /\ Tail(toFw[x]) \in Seq(Messages)
         /\ fromFw[x] # <<>> => Head(fromFw[x]) \in Answers /\ Tail(fromFw[x]) \in Seq(Answers)
<1>1. toFw[x] \in Seq(Messages) /\ fromFw[x] \in Seq(Answers)
  BY DEF IInv, TypeOK
<1>. QED
  BY <1>1, HeadTailProperties

\* CSI accepts the holder's command or refuses it.
LEMMA FwCsiKeeps ==
  ASSUME NEW ok \in BOOLEAN, IInv, FwCsi(ok) PROVE IInv'
<1>1. PICK m \in Messages : m = Head(toFw["csi"])
  BY FwTypes DEF FwCsi, Clients
<1>2. PICK n \in Messages : n = [m EXCEPT !.ok = ok] /\ n.ok = ok /\ n.cmd = m.cmd
  <2>1. [m EXCEPT !.ok = ok] \in Messages
    BY DEF Messages
  <2>2. [m EXCEPT !.ok = ok].ok = ok /\ [m EXCEPT !.ok = ok].cmd = m.cmd
    BY DEF Messages
  <2>. QED
    BY <2>1, <2>2
<1>3. PICK a \in Answers : a = [slot |-> "response", msg |-> n]
  BY DEF Answers, Slots
<1>4. /\ toFw["csi"] # <<>> /\ toFw' = [toFw EXCEPT !["csi"] = Tail(@)]
      /\ fromFw' = [fromFw EXCEPT !["csi"] = Append(@, a)]
      /\ csiOwner' = IF ok /\ m.cmd = "set_owner" THEN m.arg ELSE csiOwner
      /\ UNCHANGED <<vscVars, clientVars, userVars, camOwner, last, disturbed>>
  BY <1>1, <1>2, <1>3 DEF FwCsi
<1>5. TypeOK'
  <2>1. toFw' \in [Clients -> Seq(Messages)]
    BY <1>4, FwTypes DEF IInv, TypeOK, Clients
  <2>2. fromFw' \in [Clients -> Seq(Answers)]
    <3>1. Append(fromFw["csi"], a) \in Seq(Answers)
      BY AppendProperties DEF IInv, TypeOK, Clients
    <3>. QED
      BY <1>4, <3>1 DEF IInv, TypeOK
  <2>3. csiOwner' \in Own
    BY <1>4 DEF IInv, TypeOK, Messages
  <2>. QED
    BY <1>4, <2>1, <2>2, <2>3 DEF IInv, TypeOK, vscVars, clientVars, userVars
<1>6. CountedInv'
  BY <1>4 DEF IInv, CountedInv, userVars
<1>7. CleanInv'
  <2> SUFFICES ASSUME ~disturbed' PROVE (HolderInv /\ CsiInv /\ AceInv /\ ProgressInv /\ OwnershipAgrees)'
    BY DEF CleanInv
  <2>1. ~disturbed /\ HolderInv /\ CsiInv /\ AceInv /\ ProgressInv /\ OwnershipAgrees
    BY <1>4 DEF IInv, CleanInv
  <2>2. HolderInv'
    BY <1>4, <2>1 DEF HolderInv, Inside, vscVars, clientVars, userVars
  <2>3. CsiSent(m) /\ H # None /\ pc[H] = "csi_wait"
    <3>1. PICK c \in Messages : CsiSent(c) /\ H # None /\ pc[H] = "csi_wait"
      BY <1>4, <2>1 DEF CsiInv, Quiet, CsiAnswered, CsiStored
    <3>2. toFw["csi"] = <<c>>
      BY <3>1 DEF CsiSent
    <3>3. c = m
      BY <1>1, <3>2
    <3>. QED
      BY <3>1, <3>3
  <2>4. CsiAnswered(n)'
    <3>1. toFw'["csi"] = <<>>
      BY <1>4, <2>3 DEF CsiSent, Clients, IInv, TypeOK
    <3>2. fromFw'["csi"] = <<a>>
      BY <1>4, <2>3 DEF CsiSent, Clients, IInv, TypeOK
    <3>3. CsiOwned(n.ok)'
      BY <1>2, <1>4, <2>3 DEF CsiSent, CsiOwned, H, Owner, vscVars, userVars
    <3>. QED
      BY <1>3, <1>4, <2>3, <3>1, <3>2, <3>3 DEF CsiSent, CsiAnswered, clientVars
  <2>5. CsiInv'
    BY <1>4, <2>3, <2>4 DEF CsiInv, H, vscVars, userVars
  <2>6. AceInv'
    <3>1. toFw'["ace"] = toFw["ace"] /\ fromFw'["ace"] = fromFw["ace"]
      BY <1>4 DEF IInv, TypeOK, Clients
    <3>. QED
      BY <1>4, <2>1, <3>1 DEF AceInv, Quiet, NotifyComing, AceSent, AceRefused, AceAnswered, AceStored, AceNotified,
         H, Owner, AceCmd, vscVars, clientVars, userVars
  <2>7. ProgressInv'
    BY <1>4, <2>1, <2>3 DEF ProgressInv, CsiSent, H, CsiPart, AcePcs, vscVars, clientVars, userVars
  <2>8. OwnershipAgrees'
    BY <1>4, <2>3 DEF OwnershipAgrees, H, vscVars
  <2>. QED
    BY <2>2, <2>5, <2>6, <2>7, <2>8
<1>. QED
  BY <1>5, <1>6, <1>7 DEF IInv

\* ACE refuses the holder's command, or hands the camera over and answers twice.
LEMMA FwAceKeeps ==
  ASSUME NEW ok \in BOOLEAN, IInv, FwAce(ok) PROVE IInv'
<1>1. PICK m \in Messages : m = Head(toFw["ace"])
  BY FwTypes DEF FwAce, Clients
<1>2. PICK n \in Messages : n = [m EXCEPT !.ok = ok] /\ n.ok = ok /\ n.cmd = m.cmd
  <2>1. [m EXCEPT !.ok = ok] \in Messages
    BY DEF Messages
  <2>2. [m EXCEPT !.ok = ok].ok = ok /\ [m EXCEPT !.ok = ok].cmd = m.cmd
    BY DEF Messages
  <2>. QED
    BY <2>1, <2>2
<1>3. PICK a \in Answers : a = [slot |-> "reply", msg |-> n]
  BY DEF Answers, Slots
<1>4. PICK b \in Answers : b = [slot |-> "notify", msg |-> n] /\ b = [a EXCEPT !.slot = "notify"]
  <2>1. [slot |-> "notify", msg |-> n] \in Answers
    BY DEF Answers, Slots
  <2>2. [a EXCEPT !.slot = "notify"] = [slot |-> "notify", msg |-> n]
    BY <1>3
  <2>. QED
    BY <2>1, <2>2
<1>5. PICK s \in Seq(Answers) : s = IF ok THEN <<a, b>> ELSE <<a>>
  <2>1. <<a, b>> \in Seq(Answers) /\ <<a>> \in Seq(Answers)
    OBVIOUS
  <2>. QED
    BY <2>1
<1>6. /\ toFw["ace"] # <<>> /\ toFw' = [toFw EXCEPT !["ace"] = Tail(@)]
      /\ fromFw' = [fromFw EXCEPT !["ace"] = @ \o s]
      /\ camOwner' = IF ok THEN m.arg ELSE camOwner
      /\ UNCHANGED <<vscVars, clientVars, userVars, csiOwner, last, disturbed>>
  BY <1>1, <1>2, <1>3, <1>4, <1>5 DEF FwAce
<1>7. TypeOK'
  <2>1. toFw' \in [Clients -> Seq(Messages)]
    BY <1>6, FwTypes DEF IInv, TypeOK, Clients
  <2>2. fromFw' \in [Clients -> Seq(Answers)]
    <3>1. fromFw["ace"] \o s \in Seq(Answers)
      BY ConcatProperties DEF IInv, TypeOK, Clients
    <3>. QED
      BY <1>6, <3>1 DEF IInv, TypeOK
  <2>3. camOwner' \in Own
    BY <1>6 DEF IInv, TypeOK, Messages
  <2>. QED
    BY <1>6, <2>1, <2>2, <2>3 DEF IInv, TypeOK, vscVars, clientVars, userVars
<1>8. CountedInv'
  BY <1>6 DEF IInv, CountedInv, userVars
<1>9. CleanInv'
  <2> SUFFICES ASSUME ~disturbed' PROVE (HolderInv /\ CsiInv /\ AceInv /\ ProgressInv /\ OwnershipAgrees)'
    BY DEF CleanInv
  <2>1. ~disturbed /\ HolderInv /\ CsiInv /\ AceInv /\ ProgressInv /\ OwnershipAgrees
    BY <1>6 DEF IInv, CleanInv
  <2>2. HolderInv'
    BY <1>6, <2>1 DEF HolderInv, Inside, vscVars, clientVars, userVars
  <2>3. AceSent(m) /\ H # None /\ pc[H] = "ace_reply"
    <3>1. PICK c \in Messages : AceSent(c) /\ H # None /\ pc[H] = "ace_reply"
      BY <1>6, <2>1 DEF AceInv, Quiet, AceRefused, AceAnswered, AceStored, AceNotified
    <3>2. toFw["ace"] = <<c>>
      BY <3>1 DEF AceSent
    <3>3. c = m
      BY <1>1, <3>2
    <3>. QED
      BY <3>1, <3>3
  <2>4. toFw'["ace"] = <<>> /\ fromFw'["ace"] = s
    <3>1. toFw'["ace"] = <<>>
      BY <1>6, <2>3 DEF AceSent, Clients, IInv, TypeOK
    <3>2. <<>> \o s = s
      BY ConcatEmptySeq
    <3>. QED
      BY <1>6, <2>3, <3>1, <3>2 DEF AceSent, Clients, IInv, TypeOK
  <2>5. AceInv'
    <3>1. CASE ok
      <4>1. AceAnswered(n)'
        BY <1>2, <1>3, <1>4, <1>5, <1>6, <2>3, <2>4, <3>1 DEF AceSent, AceAnswered, H, Owner, AceCmd, vscVars, clientVars, userVars
      <4>. QED
        BY <1>6, <2>3, <4>1 DEF AceInv, H, vscVars, userVars
    <3>2. CASE ~ok
      <4>1. AceRefused(n)'
        BY <1>2, <1>3, <1>5, <1>6, <2>3, <2>4, <3>2 DEF AceSent, AceRefused, clientVars
      <4>. QED
        BY <1>6, <2>3, <4>1 DEF AceInv, H, vscVars, userVars
    <3>. QED
      BY <3>1, <3>2
  <2>6. CsiInv'
    <3>1. toFw'["csi"] = toFw["csi"] /\ fromFw'["csi"] = fromFw["csi"]
      BY <1>6 DEF IInv, TypeOK, Clients
    <3>. QED
      BY <1>6, <2>1, <3>1 DEF CsiInv, Quiet, CsiOwned, CsiSent, CsiAnswered, CsiStored,
         H, Owner, vscVars, clientVars, userVars
  <2>7. ProgressInv'
    BY <1>6, <2>1, <2>3 DEF ProgressInv, H, CsiPart, AcePcs, vscVars, clientVars, userVars
  <2>8. OwnershipAgrees'
    BY <1>6, <2>3 DEF OwnershipAgrees, H, vscVars
  <2>. QED
    BY <2>2, <2>5, <2>6, <2>7, <2>8
<1>. QED
  BY <1>7, <1>8, <1>9 DEF IInv

\* A lost message is one of the things the invariant sets aside.
LEMMA LoseKeeps ==
  ASSUME NEW x \in Clients, IInv, Lose(x) PROVE IInv'
<1>1. toFw' \in [Clients -> Seq(Messages)] /\ fromFw' \in [Clients -> Seq(Answers)]
  <2>1. CASE toFw[x] # <<>> /\ toFw' = [toFw EXCEPT ![x] = Tail(@)] /\ UNCHANGED fromFw
    BY <2>1, FwTypes DEF IInv, TypeOK
  <2>2. CASE fromFw[x] # <<>> /\ fromFw' = [fromFw EXCEPT ![x] = Tail(@)] /\ UNCHANGED toFw
    BY <2>2, FwTypes DEF IInv, TypeOK
  <2>. QED
    BY <2>1, <2>2 DEF Lose
<1>2. TypeOK'
  BY <1>1 DEF IInv, TypeOK, Lose, vscVars, clientVars, userVars, fwVars
<1>. QED
  BY <1>2 DEF IInv, CountedInv, CleanInv, Lose, userVars

\* The answer is stored and the waiter's completion completed.
LEMMA RxKeeps ==
  ASSUME NEW x \in Clients, IInv, Rx(x) PROVE IInv'
<1>1. PICK a \in Answers : a = Head(fromFw[x])
  BY FwTypes DEF Rx
<1>2. /\ fromFw[x] # <<>> /\ a.slot \in Slots /\ a.msg \in Messages
      /\ got' = [got EXCEPT ![a.slot] = a.msg] /\ done' = [done EXCEPT ![a.slot] = TRUE]
      /\ fromFw' = [fromFw EXCEPT ![x] = Tail(@)]
      /\ UNCHANGED <<vscVars, life, cmutex, cb, woken, idreq, userVars, toFw, fwVars, last, disturbed>>
  BY <1>1 DEF Rx, Answers
<1>3. TypeOK'
  <2>1. fromFw' \in [Clients -> Seq(Answers)]
    BY <1>2, FwTypes DEF IInv, TypeOK
  <2>2. got' \in [Slots -> Messages] /\ done' \in [Slots -> BOOLEAN]
    BY <1>2 DEF IInv, TypeOK
  <2>. QED
    BY <1>2, <2>1, <2>2 DEF IInv, TypeOK, vscVars, userVars, fwVars
<1>4. CountedInv'
  BY <1>2 DEF IInv, CountedInv, userVars
<1>5. CleanInv'
  <2> SUFFICES ASSUME ~disturbed' PROVE (HolderInv /\ CsiInv /\ AceInv /\ ProgressInv /\ OwnershipAgrees)'
    BY DEF CleanInv
  <2>1. ~disturbed /\ HolderInv /\ CsiInv /\ AceInv /\ ProgressInv /\ OwnershipAgrees
    BY <1>2 DEF IInv, CleanInv
  <2>2. HolderInv' /\ ProgressInv' /\ OwnershipAgrees'
    BY <1>2, <2>1 DEF HolderInv, Inside, ProgressInv, H, OwnershipAgrees, vscVars, userVars, fwVars
  <2>3. fromFw \in [Clients -> Seq(Answers)] /\ got \in [Slots -> Messages] /\ done \in [Slots -> BOOLEAN]
    BY DEF IInv, TypeOK
  <2>4. CASE x = "csi"
    <3>1. PICK m \in Messages : CsiAnswered(m) /\ H # None /\ pc[H] = "csi_wait"
      BY <1>2, <2>1, <2>4 DEF CsiInv, Quiet, CsiSent, CsiStored
    <3>2. a = [slot |-> "response", msg |-> m] /\ fromFw'["csi"] = <<>> /\ fromFw'["ace"] = fromFw["ace"]
      BY <1>1, <1>2, <2>3, <2>4, <3>1 DEF CsiAnswered, Clients
    <3>3. /\ got'["response"] = m /\ done'["response"]
          /\ \A s \in {"reply", "notify"} : got'[s] = got[s] /\ done'[s] = done[s]
      BY <1>2, <2>3, <3>2 DEF Slots
    <3>4. CsiStored'
      BY <1>2, <3>1, <3>2, <3>3 DEF CsiAnswered, CsiStored, CsiOwned, H, Owner, vscVars, userVars, fwVars
    <3>5. CsiInv'
      BY <1>2, <3>1, <3>4 DEF CsiInv, H, vscVars, userVars
    <3>6. AceInv'
      <4>1. /\ vmutex' = vmutex /\ pc' = pc /\ toFw' = toFw /\ camOwner' = camOwner
            /\ AceCmd(H)' = AceCmd(H) /\ Owner(H)' = Owner(H)
        BY <1>2 DEF H, Owner, AceCmd, vscVars, userVars, fwVars
      <4>2. Quiet("ace", {"reply", "notify"}) => Quiet("ace", {"reply", "notify"})'
        BY <3>2, <3>3, <4>1 DEF Quiet
      <4>3. \A v \in Messages : /\ AceSent(v) => AceSent(v)'
                                /\ AceRefused(v) => AceRefused(v)'
                                /\ AceAnswered(v) => AceAnswered(v)'
        BY <3>2, <3>3, <4>1 DEF AceSent, AceRefused, AceAnswered
      <4>4. NotifyComing => NotifyComing'
        BY <3>2, <3>3 DEF NotifyComing
      <4>5. (AceStored => AceStored') /\ (AceNotified => AceNotified')
        BY <3>2, <3>3, <4>1, <4>4 DEF AceStored, AceNotified
      <4>6. CASE Quiet("ace", {"reply", "notify"})
        BY <4>2, <4>6 DEF AceInv
      <4>7. CASE /\ H # None /\ pc[H] = "ace_reply"
                 /\ (\E v \in Messages : AceSent(v) \/ AceRefused(v) \/ AceAnswered(v)) \/ AceStored
        <5>1. H' # None /\ pc'[H'] = "ace_reply"
          BY <4>1, <4>7 DEF H
        <5>2. (\E v \in Messages : AceSent(v)' \/ AceRefused(v)' \/ AceAnswered(v)') \/ AceStored'
          BY <4>3, <4>5, <4>7
        <5>. QED
          BY <5>1, <5>2 DEF AceInv
      <4>8. CASE H # None /\ pc[H] = "ace_notify" /\ AceNotified
        BY <4>1, <4>5, <4>8 DEF AceInv, H
      <4>. QED
        BY <2>1, <4>6, <4>7, <4>8 DEF AceInv
    <3>. QED
      BY <2>2, <3>5, <3>6
  <2>5. CASE x = "ace"
    <3>1. fromFw'["csi"] = fromFw["csi"] /\ fromFw'["ace"] = Tail(fromFw["ace"]) /\ fromFw["ace"] # <<>>
      BY <1>2, <2>3, <2>5 DEF Clients
    <3>2. ASSUME NEW m \in Messages, AceRefused(m), H # None, pc[H] = "ace_reply" PROVE AceInv' /\ a.slot # "response"
      <4>1. a = [slot |-> "reply", msg |-> m] /\ fromFw'["ace"] = <<>>
        BY <1>1, <2>5, <3>1, <3>2 DEF AceRefused
      <4>2. got'["reply"] = m /\ done'["reply"] /\ ~done'["notify"]
        BY <1>2, <2>3, <3>2, <4>1 DEF Slots, AceRefused
      <4>. QED
        BY <1>2, <3>2, <4>1, <4>2 DEF AceInv, AceRefused, AceStored, H, vscVars, userVars
    <3>3. ASSUME NEW m \in Messages, AceAnswered(m), H # None, pc[H] = "ace_reply" PROVE AceInv' /\ a.slot # "response"
      <4>1. a = [slot |-> "reply", msg |-> m] /\ fromFw'["ace"] = <<[slot |-> "notify", msg |-> m]>>
        BY <1>1, <2>5, <3>1, <3>3 DEF AceAnswered
      <4>2. got'["reply"] = m /\ done'["reply"] /\ ~done'["notify"]
        BY <1>2, <2>3, <3>3, <4>1 DEF Slots, AceAnswered
      <4>. QED
        BY <1>2, <3>3, <4>1, <4>2 DEF AceInv, AceAnswered, AceStored, NotifyComing, H, Owner, AceCmd, vscVars, userVars, fwVars
    <3>4. ASSUME NotifyComing PROVE NotifyComing' /\ a.slot = "notify"
      <4>1. PICK m \in Messages : fromFw["ace"] = <<[slot |-> "notify", msg |-> m]>>
        BY <3>1, <3>4 DEF NotifyComing
      <4>2. a = [slot |-> "notify", msg |-> m] /\ fromFw'["ace"] = <<>>
        BY <1>1, <2>5, <3>1, <4>1
      <4>. QED
        BY <1>2, <2>3, <4>2 DEF NotifyComing, Slots
    <3>5. ASSUME AceStored, H # None, pc[H] = "ace_reply" PROVE AceInv' /\ a.slot # "response"
      <4>1. got["reply"].ok /\ NotifyComing' /\ a.slot = "notify"
        BY <3>1, <3>4, <3>5 DEF AceStored
      <4>2. got'["reply"] = got["reply"] /\ done'["reply"] = done["reply"]
        BY <1>2, <2>3, <4>1 DEF Slots
      <4>. QED
        BY <1>2, <3>5, <4>1, <4>2 DEF AceInv, AceStored, H, Owner, AceCmd, vscVars, userVars, fwVars
    <3>6. ASSUME AceNotified, H # None, pc[H] = "ace_notify" PROVE AceInv' /\ a.slot # "response"
      <4>1. NotifyComing' /\ a.slot = "notify"
        BY <3>4, <3>6 DEF AceNotified
      <4>2. done'["reply"] = done["reply"]
        BY <1>2, <2>3, <4>1 DEF Slots
      <4>. QED
        BY <1>2, <3>6, <4>1, <4>2 DEF AceInv, AceNotified, H, Owner, vscVars, userVars, fwVars
    <3>7. AceInv' /\ a.slot # "response"
      BY <2>1, <3>1, <3>2, <3>3, <3>5, <3>6 DEF AceInv, Quiet, AceSent
    <3>8. got'["response"] = got["response"] /\ done'["response"] = done["response"]
      BY <1>2, <2>3, <3>7 DEF Slots
    <3>9. CsiInv'
      BY <1>2, <2>1, <3>1, <3>8 DEF CsiInv, Quiet, CsiOwned, CsiSent, CsiAnswered, CsiStored, H, Owner, vscVars, userVars, fwVars
    <3>. QED
      BY <2>2, <3>7, <3>9
  <2>. QED
    BY <2>4, <2>5 DEF Clients
<1>. QED
  BY <1>3, <1>4, <1>5 DEF IInv

\* The module id is outside the hand-over.
LEMMA RxIdKeeps ==
  ASSUME IInv, RxFwId \/ RxFwReady PROVE IInv'
<1>1. /\ woken' \in BOOLEAN /\ idreq' \in BOOLEAN
      /\ UNCHANGED <<vscVars, life, cmutex, done, got, cb, userVars, wireVars, fwVars, last, disturbed>>
  BY DEF RxFwId, RxFwReady, IInv, TypeOK
<1>2. TypeOK' /\ CountedInv'
  BY <1>1 DEF IInv, TypeOK, CountedInv, vscVars, userVars, wireVars, fwVars
<1>3. (CsiInv => CsiInv') /\ (AceInv => AceInv')
  BY <1>1, WireFrame DEF vscVars, userVars
<1>4. (HolderInv => HolderInv') /\ (ProgressInv => ProgressInv') /\ (OwnershipAgrees => OwnershipAgrees')
  BY <1>1 DEF HolderInv, Inside, ProgressInv, H, OwnershipAgrees, vscVars, userVars, fwVars
<1>. QED
  BY <1>1, <1>2, <1>3, <1>4 DEF IInv, CleanInv

\* Removal is one of the things the invariant sets aside.
LEMMA RemoveKeeps ==
  ASSUME NEW x \in Clients, IInv, Unregister(x) \/ Remove(x) PROVE IInv'
<1>1. CASE Unregister(x)
  <2>1. TypeOK'
    BY <1>1 DEF IInv, TypeOK, Unregister, Advance, Lives, userVars, wireVars, fwVars
  <2>. QED
    BY <1>1, <2>1 DEF IInv, CountedInv, CleanInv, Unregister, userVars
<1>2. CASE Remove(x)
  <2>1. disturbed
    BY <1>2 DEF IInv, CleanInv, HolderInv, Remove, CompleteAll, Disable, WaitUntilNoAccess, Free, Advance
  <2>2. life' \in [Clients -> Lives] /\ done' \in [Slots -> BOOLEAN]
    BY ZenonT(60), <1>2 DEF IInv, TypeOK, Remove, CompleteAll, Disable, WaitUntilNoAccess, Free, Advance, Lives
  <2>3. toFw' \in [Clients -> Seq(Messages)] /\ fromFw' \in [Clients -> Seq(Answers)]
    <3>1. <<>> \in Seq(Messages) /\ <<>> \in Seq(Answers)
      BY EmptySeq
    <3>2. \/ UNCHANGED <<toFw, fromFw>>
          \/ toFw' = [toFw EXCEPT ![x] = <<>>] /\ fromFw' = [fromFw EXCEPT ![x] = <<>>]
      BY <1>2 DEF Remove, CompleteAll, Disable, WaitUntilNoAccess, Free, wireVars
    <3>3. toFw \in [Clients -> Seq(Messages)] /\ fromFw \in [Clients -> Seq(Answers)]
      BY DEF IInv, TypeOK
    <3>4. toFw' \in [Clients -> Seq(Messages)]
      BY <3>1, <3>2, <3>3
    <3>5. fromFw' \in [Clients -> Seq(Answers)]
      BY <3>1, <3>2, <3>3
    <3>. QED
      BY <3>4, <3>5
  <2>4. UNCHANGED <<vscVars, cmutex, got, cb, woken, idreq, userVars, fwVars, last, disturbed>>
    BY <1>2 DEF Remove, CompleteAll, Disable, WaitUntilNoAccess, Free
  <2>5. TypeOK'
    BY <2>2, <2>3, <2>4 DEF IInv, TypeOK, vscVars, userVars, fwVars
  <2>. QED
    BY <2>1, <2>4, <2>5 DEF IInv, CountedInv, CleanInv, userVars
<1>. QED
  BY <1>1, <1>2

-----------------------------------------------------------------------------
(* The theorems.                                                           *)

LEMMA Invariance == Spec => []IInv
<1>1. IInv /\ [Next]_vars => IInv'
  <2> SUFFICES ASSUME IInv, [Next]_vars PROVE IInv'
    OBVIOUS
  <2>1. ASSUME NEW u \in Users, NEW o \in Ops, Start(u, o) PROVE IInv'
    BY <2>1, StartKeeps
  <2>2. ASSUME NEW u \in Users, VscLock(u) \/ GetFwIdInterrupted(u) \/ Thread(u) PROVE IInv'
    BY <2>2, VscLockKeeps, CallbackKeeps, FwIdKeeps, AceLockKeeps, AceSendKeeps, AceReplyKeeps, AceNotifyKeeps,
       CsiLockKeeps, CsiSendKeeps, CsiResponseKeeps, TimeoutKeeps, UseAfterFreeKeeps DEF Thread
  <2>3. CASE Firmware
    BY <2>3, FwCsiKeeps, FwAceKeeps, RxIdKeeps, LoseKeeps, RxKeeps DEF Firmware
  <2>4. CASE mei_csi_probe \/ mei_ace_probe
    BY <2>4, CsiProbeKeeps, AceProbeKeeps
  <2>5. ASSUME NEW x \in Clients, Unregister(x) \/ Remove(x) PROVE IInv'
    BY <2>5, RemoveKeeps
  <2>6. CASE UNCHANGED vars
    BY <2>6, StutterKeeps
  <2>. QED
    BY <2>1, <2>2, <2>3, <2>4, <2>5, <2>6 DEF Next
<1>. QED
  BY <1>1, IInvInit, PTL DEF Spec

\* Every variable of the hand-over keeps its type, also while clients are
\* removed and messages are lost.
THEOREM TypeCorrect == Spec => []TypeOK
<1>1. IInv => TypeOK
  BY DEF IInv
<1>. QED
  BY <1>1, Invariance, PTL

\* After a successful acquire or release the firmware's two owners and the
\* privacy callback agree with it, whatever operations failed half way before,
\* as long as nothing was lost, late or removed.
THEOREM OwnersAgree == Spec => []OwnershipAgrees
<1>1. IInv => OwnershipAgrees
  BY DEF IInv, CleanInv, OwnershipAgrees
<1>. QED
  BY <1>1, Invariance, PTL
============================================================================
