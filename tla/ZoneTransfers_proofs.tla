------------------------- MODULE ZoneTransfers_proofs -------------------------
(***************************************************************************)
(* Theorem about the transfers of slave zones (ZoneTransfers): zones stay  *)
(* whole, whatever the threads do and whichever transfers share a name,    *)
(* but for those stored under a name that was crossed, and there are none  *)
(* when no two transfers start in the same second.                         *)
(***************************************************************************)
EXTENDS ZoneTransfers, FiniteSetTheorems, TLAPS

-----------------------------------------------------------------------------
(* The inductive invariant *)

\* Requests of a transfer that may still fill a transaction or commit it.
Busy == {"start", "feed", "commit"}

\* What a request and a frame carry.
Wellformed(r) ==
    /\ r.pc # "idle" => r.zone \in Zones
    /\ r.pc \in Busy => r.tx \in TxIds /\ r.version # 0
    /\ r.pc = "start" => r.fed = 0
    /\ r.pc = "feed" => r.fed < Records

Sent ==
    /\ \A c \in Clients : Wellformed(client[c])
    /\ \A r \in late : Wellformed(r)
    /\ \A t \in Threads : IF frame[t].op = "idle" THEN frame[t].for = Nobody /\ frame[t].tx = 0
                          ELSE frame[t].zone \in Zones /\ frame[t].tx \in TxIds

\* Requests of a transfer that has begun.
Begun == {"feed", "commit", "abort"}

AskedFor(op) == IF op = "erase" THEN "commit" ELSE op

\* A thread that works for a client does what the client waits for, alone.
Attended ==
    /\ \A t \in Threads, c \in Clients :
         frame[t].for = c => frame[t].tx = client[c].tx /\ client[c].pc = AskedFor(frame[t].op)
    /\ \A t, u \in Threads : frame[t].for = frame[u].for => t = u \/ frame[t].for = Nobody
    /\ \A t \in Threads, c \in Clients : frame[t].op = "start" /\ frame[t].for = c =>
         frame[t].zone = client[c].zone
    /\ \A t \in Threads, c \in Clients : frame[t].op = "feed" /\ frame[t].for = c =>
         frame[t].data = {<<client[c].zone, client[c].version, client[c].fed + 1>>}

\* A transaction about to be inserted under a name that is not crossed is new, and there is
\* nobody else who might use it.
Beginning ==
    \A t \in Threads : frame[t].op = "start" /\ frame[t].tx \notin crossed =>
      /\ frame[t].tx \notin DOMAIN txs
      /\ \A u \in Threads : frame[u].tx = frame[t].tx => u = t
      /\ \A r \in late : r.tx = frame[t].tx => r.pc \notin Begun
      /\ \A c \in Clients : client[c].tx = frame[t].tx => client[c].pc \notin Begun

\* A transfer that feeds or commits under a name that is not crossed has it to itself.
Owned ==
    \A c \in Clients : client[c].pc \in {"feed", "commit"} /\ client[c].tx \notin crossed =>
      /\ \A d \in Clients : client[d].tx = client[c].tx => d = c \/ client[d].pc \notin Begun
      /\ \A r \in late : r.tx = client[c].tx => r.pc \notin Begun
      /\ \A t \in Threads : frame[t].tx = client[c].tx => frame[t].for = c /\ frame[t].valid

\* The first k records of a version; all records of some version.
Fed(z, v, k)   == {<<z, v, i>> : i \in 1..k}
Whole(z, data) == \E v \in 1..MaxVersion : data = Full(z, v)

\* Nothing is added to a transaction that a request given up may still commit.
Sealed ==
    \A r \in late : r.pc = "commit" /\ r.tx \notin crossed =>
      /\ \A s \in late : s.tx = r.tx => s.pc # "feed"
      /\ \A t \in Threads : frame[t].tx = r.tx => frame[t].op # "feed"
      /\ r.tx \in DOMAIN txs => Whole(txs[r.tx].zone, txs[r.tx].data)

\* What the transaction of a transfer has among the transactions open, unless it is gone.
Holds(w, open) ==
    /\ w.pc = "feed" /\ w.tx \in DOMAIN open =>
         open[w.tx] = [zone |-> w.zone, data |-> Fed(w.zone, w.version, w.fed)]
    /\ w.pc = "commit" /\ w.tx \in DOMAIN open =>
         open[w.tx] = [zone |-> w.zone, data |-> Full(w.zone, w.version)]

\* Under a name that is not crossed a transaction has what its transfer fed so far, and what
\* is about to be stored is whole.
Contents ==
    /\ \A c \in Clients : client[c].tx \notin crossed => Holds(client[c], txs)
    /\ \A t \in Threads : frame[t].op = "commit" /\ frame[t].tx \notin crossed =>
         Whole(frame[t].zone, frame[t].data)

\* A zone is empty, mixed or whole.
Unmixed == \A z \in Zones : state[z] = {} \/ z \in mixed \/ Whole(z, state[z])

TransferInv == TypeOK /\ Sent /\ Attended /\ Beginning /\ Owned /\ Sealed /\ Contents /\ Unmixed

\* When no two transfers start in the same second, a name is one transfer's, nobody else uses
\* it before that transfer begins, and a start that was given up has the name to itself.
Distinct ==
    /\ second = 0 /\ crossed = {} /\ mixed = {}
    /\ \A c, d \in Clients : client[c].tx = client[d].tx => c = d \/ client[c].tx = 0
    /\ \A c \in Clients : client[c].pc = "start" =>
         /\ \A r \in late : r.tx # client[c].tx
         /\ \A t \in Threads : frame[t].tx = client[c].tx => frame[t].for = c
    /\ \A r \in late : r.pc = "start" =>
         /\ \A s \in late : s.tx = r.tx => s = r
         /\ \A t \in Threads : frame[t].tx # r.tx
         /\ \A c \in Clients : client[c].tx # r.tx

-----------------------------------------------------------------------------
(* Clients *)

LEMMA Idle == NoTransfer \in Transfers /\ Wellformed(NoTransfer) /\ NoFrame \in Frames
BY TransferAssumption DEF NoTransfer, Transfers, Wellformed, Busy, NoFrame, Frames

LEMMA AnsweredWhat ==
  ASSUME NEW w \in Transfers, Wellformed(w), NEW ok \in BOOLEAN, NEW a, a = Answered(w, ok)
  PROVE  /\ a \in Transfers /\ Wellformed(a) /\ a.tx \in {w.tx, 0}
         /\ a.pc \in Busy =>
              /\ ok /\ a.tx = w.tx /\ a.zone = w.zone /\ a.version = w.version
              /\ \/ w.pc = "start" /\ a.pc = "feed" /\ a.fed = 0
                 \/ w.pc = "feed" /\ a.fed = w.fed + 1 /\ a.pc = IF w.fed + 1 = Records THEN "commit" ELSE "feed"
         /\ a.pc = "abort" => w.pc = "feed" /\ ~ok /\ a.tx = w.tx
<1>1. CASE w.pc = "start" /\ ok
  <2>1. a = [w EXCEPT !.pc = "feed"] BY <1>1 DEF Answered
  <2>2. a \in Transfers BY <2>1 DEF Transfers
  <2>3. a.pc = "feed" /\ a.tx = w.tx /\ a.zone = w.zone /\ a.version = w.version /\ a.fed = w.fed BY <2>1 DEF Transfers
  <2>4. w.zone \in Zones /\ w.tx \in TxIds /\ w.version # 0 /\ w.fed = 0 BY <1>1 DEF Wellformed, Busy
  <2>5. Wellformed(a) BY <2>3, <2>4, TransferAssumption DEF Wellformed, Busy
  <2> QED BY <1>1, <2>2, <2>3, <2>4, <2>5
<1>2. CASE w.pc = "feed" /\ ok
  <2>1. a = [w EXCEPT !.fed = w.fed + 1, !.pc = IF w.fed + 1 = Records THEN "commit" ELSE w.pc] BY <1>2 DEF Answered
  <2>2. w.fed + 1 \in 0..Records BY <1>2, TransferAssumption DEF Transfers, Wellformed
  <2>3. a \in Transfers BY <1>2, <2>1, <2>2 DEF Transfers
  <2>4. /\ a.pc = (IF w.fed + 1 = Records THEN "commit" ELSE "feed") /\ a.fed = w.fed + 1
        /\ a.tx = w.tx /\ a.zone = w.zone /\ a.version = w.version
    BY <1>2, <2>1 DEF Transfers
  <2>5. w.zone \in Zones /\ w.tx \in TxIds /\ w.version # 0 BY <1>2 DEF Wellformed, Busy
  <2>6. Wellformed(a) BY <2>2, <2>4, <2>5, TransferAssumption DEF Wellformed, Busy
  <2> QED BY <1>2, <2>3, <2>4, <2>5, <2>6
<1>3. CASE w.pc = "commit" /\ ok
  <2>1. a = [w EXCEPT !.pc = "fresh"] BY <1>3 DEF Answered
  <2> QED BY <1>3, <2>1 DEF Transfers, Wellformed, Busy
<1>4. CASE w.pc = "feed" /\ ~ok
  <2>1. a = [w EXCEPT !.pc = "abort"] BY <1>4 DEF Answered
  <2> QED BY <1>4, <2>1 DEF Transfers, Wellformed, Busy
<1>5. CASE ~((w.pc = "start" /\ ok) \/ (w.pc = "feed" /\ ok) \/ (w.pc = "commit" /\ ok) \/ (w.pc = "feed" /\ ~ok))
  <2>1. a = NoTransfer BY <1>5 DEF Answered
  <2> QED BY <2>1, Idle DEF NoTransfer, Busy
<1> QED BY <1>1, <1>2, <1>3, <1>4, <1>5

LEMMA GivesUpWhat ==
  ASSUME NEW w \in Transfers, Wellformed(w), NEW abort \in BOOLEAN, NEW a, a = GivesUp(w, abort)
  PROVE  /\ a \in Transfers /\ Wellformed(a) /\ a.tx \in {w.tx, 0} /\ a.pc \notin Busy
         /\ a.pc = "abort" => w.pc \in {"feed", "commit"} /\ a.tx = w.tx
         /\ w.pc = "start" => a.tx = 0
<1>1. CASE w.pc = "commit" /\ abort
  <2>1. a = [w EXCEPT !.pc = "abort"] BY <1>1 DEF GivesUp
  <2> QED BY <1>1, <2>1 DEF Transfers, Wellformed, Busy
<1>2. CASE ~(w.pc = "commit" /\ abort)
  <2>1. a = Answered(w, FALSE) BY <1>2 DEF GivesUp
  <2>2. w.pc = "start" => a.tx = 0 BY <2>1 DEF Answered, NoTransfer
  <2> QED BY <2>1, <2>2, AnsweredWhat
<1> QED BY <1>1, <1>2

\* An answer to c changes c's transfer, if c waits for one.
LEMMA ReplyWhat ==
  ASSUME TypeOK, Sent, NEW c \in Clients \union {Nobody}, NEW ok \in BOOLEAN, Reply(c, ok)
  PROVE  /\ client' \in [Clients -> Transfers]
         /\ \A d \in Clients : Wellformed(client'[d])
         /\ \A d \in Clients : client'[d].tx \in {client[d].tx, 0} /\ (d # c => client'[d] = client[d])
         /\ c \in Clients => client'[c] = Answered(client[c], ok)
<1>1. CASE c = Nobody BY <1>1, TransferAssumption DEF Reply, TypeOK, Sent
<1>2. CASE c \in Clients
  <2>1. client' = [client EXCEPT ![c] = Answered(client[c], ok)] BY <1>2, TransferAssumption DEF Reply
  <2>2. client[c] \in Transfers /\ Wellformed(client[c]) BY <1>2 DEF TypeOK, Sent
  <2>3. /\ Answered(client[c], ok) \in Transfers /\ Wellformed(Answered(client[c], ok))
        /\ Answered(client[c], ok).tx \in {client[c].tx, 0}
    BY <2>2, AnsweredWhat
  <2> QED BY <1>2, <2>1, <2>3 DEF TypeOK, Sent
<1> QED BY <1>1, <1>2

-----------------------------------------------------------------------------
(* Types, and what requests and frames carry *)

LEMMA TakesWhat ==
  ASSUME TypeOK, Sent, NEW t \in Threads, NEW c, NEW r, NEW op, op # "idle", Takes(t, c, r, op)
  PROVE  /\ c \in Clients \union {Nobody}
         /\ r \in Transfers /\ Wellformed(r) /\ r.pc = op
         /\ frame[t].op = "idle" /\ frame[t].for = Nobody /\ frame[t].tx = 0
         /\ c \in Clients => r = client[c] /\ (\A u \in Threads : frame[u].for # c) /\ late' = late
         /\ c = Nobody => r \in late /\ late' = late \ {r}
         /\ late' \subseteq late
         /\ domainIds' = domainIds /\ serial' = serial /\ second' = second /\ faults' = faults
         /\ mixed' = mixed
BY TransferAssumption DEF Takes, TypeOK, Sent, Taken

LEMMA EnterWhat ==
  ASSUME TypeOK, NEW t \in Threads, NEW op \in {"start", "feed", "commit", "erase"}, NEW c \in Clients \union {Nobody},
         NEW r, NEW zone \in Zones, NEW data \in SUBSET Data, r.tx \in TxIds, Enter(t, op, c, r, zone, data)
  PROVE  /\ frame' \in [Threads -> Frames]
         /\ frame'[t] = [op |-> op, for |-> c, zone |-> zone, tx |-> r.tx, data |-> data, valid |-> TRUE]
         /\ \A u \in Threads : u # t => frame'[u] = frame[u]
BY DEF Enter, TypeOK, Frames

LEMMA EraseWhat ==
  ASSUME TypeOK, NEW t \in Threads, NEW x, Erase(t, x, NoFrame)
  PROVE  /\ frame' \in [Threads -> Frames] /\ frame'[t] = NoFrame
         /\ \A u \in Threads : u # t =>
              /\ frame'[u].op = frame[u].op /\ frame'[u].for = frame[u].for /\ frame'[u].zone = frame[u].zone
              /\ frame'[u].tx = frame[u].tx /\ frame'[u].data = frame[u].data
              /\ frame[u].tx # x => frame'[u] = frame[u]
         /\ DOMAIN txs' = DOMAIN txs \ {x}
         /\ \A y \in DOMAIN txs' : txs'[y] = txs[y]
BY Idle DEF Erase, TypeOK, Frames

LEMMA LeaveWhat ==
  ASSUME TypeOK, Sent, NEW t \in Threads, NEW ok \in BOOLEAN, Leave(t, ok)
  PROVE  /\ frame' \in [Threads -> Frames] /\ frame'[t] = NoFrame
         /\ \A u \in Threads : u # t => frame'[u] = frame[u]
         /\ frame[t].for \in Clients \union {Nobody} /\ Reply(frame[t].for, ok)
BY Idle DEF Leave, TypeOK, Frames

LEMMA EndsWhat ==
  ASSUME TypeOK, Sent, Ends
  PROVE  /\ domainIds' \in [Zones -> Nat] /\ fresh' = {} /\ DOMAIN txs' = {} /\ second' = second /\ late' = {}
         /\ mixed' = {} /\ crossed' = crossed
         /\ state' = [z \in Zones |-> {}] /\ frame' = [u \in Threads |-> NoFrame]
         /\ client' \in [Clients -> Transfers]
         /\ \A c \in Clients :
              /\ Wellformed(client'[c]) /\ client'[c].tx \in {client[c].tx, 0}
              /\ \/ client'[c] = client[c]
                 \/ /\ client'[c].pc \notin Busy
                    /\ client'[c].pc = "abort" => client[c].pc \in {"feed", "commit"} /\ client'[c].tx = client[c].tx
<1>1. PICK abort \in BOOLEAN :
        client' = [c \in Clients |-> IF Taken(c) THEN GivesUp(client[c], abort) ELSE client[c]]
  BY DEF Ends
<1>2. ASSUME NEW c \in Clients
      PROVE  /\ client'[c] \in Transfers /\ Wellformed(client'[c]) /\ client'[c].tx \in {client[c].tx, 0}
             /\ \/ client'[c] = client[c]
                \/ /\ client'[c].pc \notin Busy
                   /\ client'[c].pc = "abort" => client[c].pc \in {"feed", "commit"} /\ client'[c].tx = client[c].tx
  <2>1. client[c] \in Transfers /\ Wellformed(client[c]) BY DEF TypeOK, Sent
  <2>2. CASE Taken(c)
    <3>1. client'[c] = GivesUp(client[c], abort) BY <1>1, <2>2
    <3> QED BY <2>1, <3>1, GivesUpWhat
  <2>3. CASE ~Taken(c) BY <1>1, <2>1, <2>3
  <2> QED BY <2>2, <2>3
<1>3. client' \in [Clients -> Transfers] BY <1>1, <1>2
<1>4. DOMAIN txs' = {} BY DEF Ends
<1> QED BY <1>2, <1>3, <1>4 DEF Ends

LEMMA TimeOutWhat ==
  ASSUME TypeOK, Sent, NEW c \in Clients, TimeOut(c)
  PROVE  /\ client' \in [Clients -> Transfers] /\ second' \in {0, second} /\ faults' \in 0..MaxFaults
         /\ crossed' = crossed /\ mixed' = mixed
         /\ \A d \in Clients : d # c => client'[d] = client[d]
         /\ Wellformed(client'[c]) /\ client'[c].tx \in {client[c].tx, 0} /\ client'[c].pc \notin Busy
         /\ client'[c].pc = "abort" => client[c].pc \in {"feed", "commit"} /\ client'[c].tx = client[c].tx
         /\ client[c].pc = "start" => client'[c].tx = 0
         /\ frame' \in [Threads -> Frames]
         /\ \A t \in Threads :
              /\ frame'[t].for = IF frame[t].for = c THEN Nobody ELSE frame[t].for
              /\ frame'[t].op = frame[t].op /\ frame'[t].zone = frame[t].zone /\ frame'[t].tx = frame[t].tx
              /\ frame'[t].data = frame[t].data /\ frame'[t].valid = frame[t].valid
         /\ late' = late \/ (late' = late \union {client[c]} /\ frame' = frame /\ ~Taken(c))
<1>1. client[c] \in Transfers /\ Wellformed(client[c]) BY DEF TypeOK, Sent
<1>2. PICK abort \in BOOLEAN : client' = [client EXCEPT ![c] = GivesUp(client[c], abort)] BY DEF TimeOut
<1>3. /\ GivesUp(client[c], abort) \in Transfers /\ Wellformed(GivesUp(client[c], abort))
      /\ GivesUp(client[c], abort).tx \in {client[c].tx, 0} /\ GivesUp(client[c], abort).pc \notin Busy
      /\ GivesUp(client[c], abort).pc = "abort" =>
           client[c].pc \in {"feed", "commit"} /\ GivesUp(client[c], abort).tx = client[c].tx
      /\ client[c].pc = "start" => GivesUp(client[c], abort).tx = 0
  BY <1>1, GivesUpWhat
<1>4. /\ client' \in [Clients -> Transfers]
      /\ \A d \in Clients : d # c => client'[d] = client[d]
      /\ Wellformed(client'[c]) /\ client'[c].tx \in {client[c].tx, 0} /\ client'[c].pc \notin Busy
      /\ client'[c].pc = "abort" => client[c].pc \in {"feed", "commit"} /\ client'[c].tx = client[c].tx
      /\ client[c].pc = "start" => client'[c].tx = 0
  BY <1>2, <1>3 DEF TypeOK
<1>5. second' \in {0, second} /\ faults' \in 0..MaxFaults /\ crossed' = crossed /\ mixed' = mixed
  BY TransferAssumption DEF TimeOut, TypeOK, history
<1>6. CASE Taken(c)
  <2>1. late' = late BY <1>6 DEF TimeOut
  <2>2. frame' = [t \in Threads |-> IF frame[t].for = c THEN [frame[t] EXCEPT !.for = Nobody] ELSE frame[t]]
    BY <1>6 DEF TimeOut
  <2>3. frame' \in [Threads -> Frames] BY <2>2 DEF TypeOK, Frames
  <2>4. \A t \in Threads :
          /\ frame'[t].for = IF frame[t].for = c THEN Nobody ELSE frame[t].for
          /\ frame'[t].op = frame[t].op /\ frame'[t].zone = frame[t].zone /\ frame'[t].tx = frame[t].tx
          /\ frame'[t].data = frame[t].data /\ frame'[t].valid = frame[t].valid
    BY <2>2 DEF TypeOK, Frames
  <2> QED BY <1>4, <1>5, <2>1, <2>3, <2>4
<1>7. CASE ~Taken(c)
  <2>1. late' = late \union {client[c]} /\ frame' = frame BY <1>7 DEF TimeOut
  <2>2. \A t \in Threads : frame[t].for # c BY <1>7 DEF Taken
  <2> QED BY <1>4, <1>5, <1>7, <2>1, <2>2 DEF TypeOK
<1> QED BY <1>6, <1>7

\* A client takes up a zone, with the name of the second or one that is not in use.
LEMMA PollWhat ==
  ASSUME TypeOK, Sent, NEW c \in Clients, NEW z \in Zones, Poll(c, z)
  PROVE  /\ domainIds' \in [Zones -> Nat] /\ client' \in [Clients -> Transfers]
         /\ client[c].pc = "idle" /\ Wellformed(client'[c])
         /\ \A d \in Clients : d # c => client'[d] = client[d]
         /\ \/ client'[c].pc = "fresh" /\ client'[c].tx = 0 /\ second' = second
            \/ /\ client'[c].pc = "start" /\ client'[c].tx # 0
               /\ IF second # 0 THEN client'[c].tx = second ELSE client'[c].tx \notin NamesInUse
               /\ second' = IF SameSecond THEN client'[c].tx ELSE 0
         /\ fresh' = fresh /\ txs' = txs /\ state' = state /\ frame' = frame /\ late' = late /\ serial' = serial
         /\ faults' = faults /\ crossed' = crossed /\ mixed' = mixed
<1>1. Cardinality(Zones) \in Nat BY TransferAssumption, FS_CardinalityType
<1>2. domainIds' \in [Zones -> Nat]
  <2>1. Assigned \subseteq [Zones -> Nat] BY <1>1 DEF Assigned
  <2> QED BY <2>1 DEF Poll
<1>3. domainIds'[z] \in Nat /\ serial[z] \in 1..MaxVersion BY <1>2 DEF TypeOK
<1>4. CASE serial[z] \in SOASerial(z)
  <2>1. second' = second /\ client' = [client EXCEPT ![c] = [NoTransfer EXCEPT !.pc = "fresh", !.zone = z, !.id = domainIds'[z]]]
    BY <1>4 DEF Poll
  <2> DEFINE w == [NoTransfer EXCEPT !.pc = "fresh", !.zone = z, !.id = domainIds'[z]]
  <2>2. w \in Transfers /\ Wellformed(w) /\ w.pc = "fresh" /\ w.tx = 0
    BY <1>3, Idle, TransferAssumption DEF NoTransfer, Transfers, Wellformed, Busy
  <2>3. client' \in [Clients -> Transfers] /\ client'[c] = w /\ \A d \in Clients : d # c => client'[d] = client[d]
    BY <2>1, <2>2 DEF TypeOK
  <2> QED BY <1>2, <2>1, <2>2, <2>3 DEF Poll, history
<1>5. CASE serial[z] \notin SOASerial(z)
  <2>1. PICK x \in TxIds :
          /\ NewName(x)
          /\ client' = [client EXCEPT ![c] =
                          [NoTransfer EXCEPT !.pc = "start", !.zone = z, !.id = domainIds'[z],
                                             !.tx = x, !.version = serial[z]]]
    BY <1>5 DEF Poll
  <2> DEFINE w == [NoTransfer EXCEPT !.pc = "start", !.zone = z, !.id = domainIds'[z], !.tx = x, !.version = serial[z]]
  <2>2. /\ IF second # 0 THEN x = second ELSE x \notin NamesInUse
        /\ second' = (IF SameSecond THEN x ELSE 0) /\ x # 0
    BY <2>1, TransferAssumption DEF NewName
  <2>3. w \in Transfers /\ w.pc = "start" /\ w.tx = x /\ w.zone = z /\ w.version = serial[z] /\ w.fed = 0
    <3>1. serial[z] \in 0..MaxVersion BY <1>3, TransferAssumption
    <3> DEFINE id == domainIds'[z]
               v == serial[z]
    <3>2. id \in Nat /\ v \in 0..MaxVersion /\ x \in TxIds /\ 0 \in 0..Records BY <1>3, <3>1, TransferAssumption
    <3> DEFINE w1 == [NoTransfer EXCEPT !.pc = "start", !.zone = z, !.id = id]
    <3> HIDE DEF id, v
    <3>3. w1 \in Transfers /\ w1.pc = "start" /\ w1.zone = z /\ w1.fed = 0
      BY <3>2, Idle, TransferAssumption DEF NoTransfer, Transfers
    <3>4. w = [w1 EXCEPT !.tx = x, !.version = v] BY Zenon DEF id, v
    <3> HIDE DEF w, w1
    <3>5. w \in Transfers /\ w.pc = "start" /\ w.zone = z /\ w.fed = 0 /\ w.tx = x /\ w.version = v
      BY <3>2, <3>3, <3>4 DEF Transfers
    <3> QED BY <3>5 DEF v
  <2>4. Wellformed(w) BY <1>3, <2>1, <2>3, TransferAssumption DEF Wellformed, Busy
  <2>5. client' \in [Clients -> Transfers] /\ client'[c] = w /\ \A d \in Clients : d # c => client'[d] = client[d]
    BY <2>1, <2>3 DEF TypeOK
  <2>6. client'[c].pc = "start" /\ client'[c].tx = x /\ Wellformed(client'[c]) BY <2>3, <2>4, <2>5
  <2> HIDE DEF w
  <2>7. /\ client[c].pc = "idle" /\ fresh' = fresh /\ txs' = txs /\ state' = state /\ frame' = frame
        /\ late' = late /\ serial' = serial /\ faults' = faults /\ crossed' = crossed /\ mixed' = mixed
    BY DEF Poll, history
  <2> QED BY <1>2, <2>2, <2>5, <2>6, <2>7
<1> QED BY <1>4, <1>5

-----------------------------------------------------------------------------
(* What the steps do *)

\* A thread takes a request: it starts to work on it, or refuses it.
LEMMA RequestWhat ==
  ASSUME TypeOK, Sent, NEW t \in Threads, NEW c, NEW r,
         startTransaction(t, c, r) \/ feedRecord(t, c, r) \/ commitTransaction(t, c, r)
  PROVE  /\ r.pc \in Busy /\ Takes(t, c, r, r.pc) /\ fresh' = fresh /\ txs' = txs /\ state' = state
         /\ r.pc # "start" => crossed' = crossed
         /\ \/ /\ client' = client /\ frame' \in [Threads -> Frames]
               /\ \A u \in Threads : u # t => frame'[u] = frame[u]
               /\ frame'[t].op = r.pc /\ frame'[t].for = c /\ frame'[t].tx = r.tx /\ frame'[t].valid
               /\ frame'[t].zone \in Zones
               /\ r.pc = "start" =>
                    /\ r.tx \notin DOMAIN txs /\ frame'[t].zone = r.zone
                    /\ crossed' = IF Crossing(r.tx) THEN crossed \union {r.tx} ELSE crossed \ {r.tx}
               /\ r.pc = "feed" => frame'[t].data = {<<r.zone, r.version, r.fed + 1>>}
               /\ r.pc = "commit" =>
                    r.tx \in DOMAIN txs /\ frame'[t].zone = txs[r.tx].zone /\ frame'[t].data = txs[r.tx].data
            \/ Reply(c, FALSE) /\ frame' = frame /\ crossed' = crossed
<1>1. CASE startTransaction(t, c, r)
  <2>1. Takes(t, c, r, "start") /\ fresh' = fresh /\ txs' = txs /\ state' = state BY <1>1 DEF startTransaction
  <2>2. c \in Clients \union {Nobody} /\ r.pc = "start" /\ r.tx \in TxIds /\ r.zone \in Zones
    BY <2>1, TakesWhat DEF Wellformed, Busy
  <2>3. CASE MayStart(r)
    <3>1. /\ Enter(t, "start", c, r, r.zone, {}) /\ client' = client
          /\ crossed' = IF Crossing(r.tx) THEN crossed \union {r.tx} ELSE crossed \ {r.tx}
      BY <1>1, <2>3 DEF startTransaction
    <3>2. /\ frame' \in [Threads -> Frames]
          /\ frame'[t] = [op |-> "start", for |-> c, zone |-> r.zone, tx |-> r.tx, data |-> {}, valid |-> TRUE]
          /\ \A u \in Threads : u # t => frame'[u] = frame[u]
      <4>1. {} \in SUBSET Data OBVIOUS
      <4> QED BY <2>2, <3>1, <4>1, EnterWhat
    <3>3. frame'[t].op = "start" /\ frame'[t].for = c /\ frame'[t].tx = r.tx /\ frame'[t].valid /\ frame'[t].zone = r.zone
      BY <3>2
    <3>4. Takes(t, c, r, r.pc) BY <2>1, <2>2
    <3>5. r.tx \notin DOMAIN txs BY <2>3 DEF MayStart
    <3>6. r.pc \in Busy /\ r.pc # "feed" /\ r.pc # "commit" BY <2>2 DEF Busy
    <3> QED BY <2>1, <2>2, <3>1, <3>2, <3>3, <3>4, <3>5, <3>6
  <2>4. CASE ~MayStart(r) BY <1>1, <2>1, <2>2, <2>4 DEF startTransaction, Busy
  <2> QED BY <2>3, <2>4
<1>2. CASE feedRecord(t, c, r)
  <2>1. Takes(t, c, r, "feed") /\ fresh' = fresh /\ txs' = txs /\ state' = state /\ crossed' = crossed
    BY <1>2 DEF feedRecord
  <2>2. /\ c \in Clients \union {Nobody} /\ r \in Transfers /\ r.pc = "feed" /\ r.tx \in TxIds /\ r.zone \in Zones
        /\ r.fed < Records /\ r.version # 0
    BY <2>1, TakesWhat DEF Wellformed, Busy
  <2>3. CASE r.tx \in DOMAIN txs
    <3> DEFINE data == {<<r.zone, r.version, r.fed + 1>>}
    <3>1. Enter(t, "feed", c, r, r.zone, data) /\ client' = client BY <1>2, <2>3 DEF feedRecord
    <3>2. r.version \in 1..MaxVersion /\ r.fed + 1 \in 1..Records BY <2>2, TransferAssumption DEF Transfers
    <3>3. data \in SUBSET Data BY <2>2, <3>2 DEF Data
    <3>4. /\ frame' \in [Threads -> Frames]
          /\ frame'[t] = [op |-> "feed", for |-> c, zone |-> r.zone, tx |-> r.tx, data |-> data, valid |-> TRUE]
          /\ \A u \in Threads : u # t => frame'[u] = frame[u]
      BY <2>2, <3>1, <3>3, EnterWhat
    <3>5. frame'[t].op = "feed" /\ frame'[t].for = c /\ frame'[t].tx = r.tx /\ frame'[t].valid
          /\ frame'[t].zone = r.zone /\ frame'[t].data = data
      BY <3>4
    <3>6. Takes(t, c, r, r.pc) BY <2>1, <2>2
    <3>7. r.pc \in Busy /\ r.pc # "start" /\ r.pc # "commit" BY <2>2 DEF Busy
    <3> QED BY <2>1, <2>2, <3>1, <3>4, <3>5, <3>6, <3>7
  <2>4. CASE r.tx \notin DOMAIN txs BY <1>2, <2>1, <2>2, <2>4 DEF feedRecord, Busy
  <2> QED BY <2>3, <2>4
<1>3. CASE commitTransaction(t, c, r)
  <2>1. Takes(t, c, r, "commit") /\ fresh' = fresh /\ txs' = txs /\ state' = state /\ crossed' = crossed
    BY <1>3 DEF commitTransaction
  <2>2. c \in Clients \union {Nobody} /\ r.pc = "commit" /\ r.tx \in TxIds
    BY <2>1, TakesWhat DEF Wellformed, Busy
  <2>3. CASE r.tx \in DOMAIN txs
    <3>1. Enter(t, "commit", c, r, txs[r.tx].zone, txs[r.tx].data) /\ client' = client
      BY <1>3, <2>3 DEF commitTransaction
    <3>2. txs[r.tx].zone \in Zones /\ txs[r.tx].data \in SUBSET Data BY <2>3 DEF TypeOK
    <3>3. /\ frame' \in [Threads -> Frames]
          /\ frame'[t] = [op |-> "commit", for |-> c, zone |-> txs[r.tx].zone, tx |-> r.tx, data |-> txs[r.tx].data,
                          valid |-> TRUE]
          /\ \A u \in Threads : u # t => frame'[u] = frame[u]
      BY <2>2, <3>1, <3>2, EnterWhat
    <3>4. frame'[t].op = "commit" /\ frame'[t].for = c /\ frame'[t].tx = r.tx /\ frame'[t].valid
          /\ frame'[t].zone = txs[r.tx].zone /\ frame'[t].data = txs[r.tx].data
      BY <3>3
    <3>5. Takes(t, c, r, r.pc) BY <2>1, <2>2
    <3>6. r.pc \in Busy /\ r.pc # "start" /\ r.pc # "feed" BY <2>2 DEF Busy
    <3> QED BY <2>1, <2>2, <2>3, <3>1, <3>2, <3>3, <3>4, <3>5, <3>6
  <2>4. CASE r.tx \notin DOMAIN txs BY <1>3, <2>1, <2>2, <2>4 DEF commitTransaction, Busy
  <2> QED BY <2>3, <2>4
<1> QED BY <1>1, <1>2, <1>3

\* An abort or a notice of freshness is handled at once.
LEMMA NoticeWhat ==
  ASSUME TypeOK, Sent, NEW t \in Threads, NEW c, NEW r, abortTransaction(t, c, r) \/ setFresh(t, c, r)
  PROVE  /\ Takes(t, c, r, r.pc) /\ r.pc \in {"abort", "fresh"} /\ Reply(c, TRUE) /\ state' = state
         /\ crossed' = crossed
         /\ \/ Erase(t, r.tx, NoFrame) /\ fresh' = fresh /\ r.pc = "abort"
            \/ txs' = txs /\ frame' = frame /\ fresh' = fresh \union {r.id}
<1>1. CASE abortTransaction(t, c, r)
  <2>1. Takes(t, c, r, "abort") BY <1>1 DEF abortTransaction
  <2>2. r.pc = "abort" BY <2>1, TakesWhat
  <2> QED BY <1>1, <2>1, <2>2 DEF abortTransaction
<1>2. CASE setFresh(t, c, r)
  <2>1. Takes(t, c, r, "fresh") BY <1>2 DEF setFresh
  <2>2. r.pc = "fresh" BY <2>1, TakesWhat
  <2> QED BY <1>2, <2>1, <2>2 DEF setFresh
<1> QED BY <1>1, <1>2

\* A thread goes on with its request: the process ends, or the thread is done with the
\* request, or it has committed the data and is to erase the transaction.
LEMMA ContinueWhat ==
  ASSUME TypeOK, Sent, NEW t \in Threads, Continue(t)
  PROVE  \/ /\ Ends /\ serial' = serial /\ faults' = faults
         \/ /\ domainIds' = domainIds /\ fresh' = fresh /\ late' = late /\ serial' = serial /\ second' = second
            /\ faults' \in 0..MaxFaults /\ crossed' = crossed
            /\ \/ /\ state' = state /\ mixed' = mixed /\ frame[t].op # "idle"
                  /\ \E ok \in BOOLEAN :
                       /\ Leave(t, ok)
                       /\ frame[t].op = "start" =>
                            txs' = [y \in DOMAIN txs \union {frame[t].tx} |->
                                      IF y \in DOMAIN txs THEN txs[y] ELSE [zone |-> frame[t].zone, data |-> {}]]
                       /\ frame[t].op = "feed" =>
                            IF frame[t].valid
                            THEN txs' = [txs EXCEPT ![frame[t].tx] = [txs[frame[t].tx] EXCEPT !.data = @ \union frame[t].data]]
                            ELSE txs' = txs
                       /\ frame[t].op \in {"commit", "erase"} => txs' = txs
                       /\ frame[t].op = "commit" => ~ok
                       /\ frame[t].op = "feed" => ok
               \/ /\ state' = state /\ mixed' = mixed /\ frame[t].op = "erase"
                  /\ Erase(t, frame[t].tx, NoFrame) /\ Reply(frame[t].for, TRUE)
               \/ /\ frame[t].op = "commit" /\ txs' = txs /\ client' = client
                  /\ state' = [state EXCEPT ![frame[t].zone] = frame[t].data]
                  /\ mixed' = IF frame[t].tx \in crossed THEN mixed \union {frame[t].zone}
                                                         ELSE mixed \ {frame[t].zone}
                  /\ frame' = [frame EXCEPT ![t].op = "erase"]
<1>0. faults' = faults => faults' \in 0..MaxFaults BY DEF TypeOK
<1>1. CASE InsertTransaction(t) BY <1>0, <1>1 DEF InsertTransaction, history
<1>2. CASE Push(t) BY <1>0, <1>2 DEF Push, Undefined, history
<1>3. CASE Apply(t) BY <1>0, <1>3 DEF Apply, Stored, history
<1>4. CASE ApplyFails(t)
  <2>1. faults' \in 0..MaxFaults BY <1>4, TransferAssumption DEF ApplyFails, TypeOK
  <2> QED BY <1>4, <2>1 DEF ApplyFails, history
<1>5. CASE EraseCommitted(t) BY <1>0, <1>5 DEF EraseCommitted, Undefined, history
<1> QED BY <1>1, <1>2, <1>3, <1>4, <1>5 DEF Continue

-----------------------------------------------------------------------------
(* Steps that leave parts of the invariant alone *)

LEMMA AttendedKept ==
  ASSUME Attended,
         \A u \in Threads :
           \/ frame'[u].for = Nobody
           \/ /\ frame'[u].for = frame[u].for /\ frame'[u].tx = frame[u].tx
              /\ AskedFor(frame'[u].op) = AskedFor(frame[u].op)
              /\ frame'[u].op \in {"start", "feed"} =>
                   frame'[u].op = frame[u].op /\ frame'[u].zone = frame[u].zone /\ frame'[u].data = frame[u].data,
         \A u \in Threads, d \in Clients : frame'[u].for = d => client'[d] = client[d]
  PROVE  Attended'
<1>0. Nobody \notin Clients BY TransferAssumption
<1>1. ASSUME NEW t \in Threads, NEW c \in Clients, frame'[t].for = c
      PROVE  /\ client'[c] = client[c] /\ frame[t].for = c /\ frame'[t].tx = client'[c].tx
             /\ client'[c].pc = AskedFor(frame'[t].op)
             /\ frame'[t].op \in {"start", "feed"} =>
                  frame'[t].op = frame[t].op /\ frame'[t].zone = frame[t].zone /\ frame'[t].data = frame[t].data
  <2>1. client'[c] = client[c] /\ frame[t].for = c BY <1>0, <1>1
  <2> QED BY <1>0, <1>1, <2>1 DEF Attended
<1>2. ASSUME NEW t \in Threads, NEW u \in Threads, frame'[t].for = frame'[u].for PROVE t = u \/ frame'[t].for = Nobody
  BY <1>2 DEF Attended
<1>3. ASSUME NEW t \in Threads, NEW c \in Clients, frame'[t].op = "start", frame'[t].for = c
      PROVE  frame'[t].zone = client'[c].zone
  BY <1>1, <1>3 DEF Attended
<1>4. ASSUME NEW t \in Threads, NEW c \in Clients, frame'[t].op = "feed", frame'[t].for = c
      PROVE  frame'[t].data = {<<client'[c].zone, client'[c].version, client'[c].fed + 1>>}
  BY <1>1, <1>4 DEF Attended
<1> QED BY <1>1, <1>2, <1>3, <1>4 DEF Attended

LEMMA BeginningKept ==
  ASSUME TypeOK, Sent, Beginning, crossed' = crossed, late' \subseteq late, DOMAIN txs' \subseteq DOMAIN txs,
         \A d \in Clients : client'[d].pc \in Begun => client[d].pc \in Begun /\ client'[d].tx = client[d].tx,
         \A u \in Threads : \/ frame'[u].tx = 0 /\ frame'[u].op = "idle"
                            \/ frame'[u].tx = frame[u].tx /\ frame'[u].op \in {frame[u].op, "erase"}
  PROVE  Beginning'
<1> SUFFICES ASSUME NEW t \in Threads, frame'[t].op = "start", frame'[t].tx \notin crossed
             PROVE  /\ frame'[t].tx \notin DOMAIN txs'
                    /\ \A u \in Threads : frame'[u].tx = frame'[t].tx => u = t
                    /\ \A r \in late' : r.tx = frame'[t].tx => r.pc \notin Begun
                    /\ \A c \in Clients : client'[c].tx = frame'[t].tx => client'[c].pc \notin Begun
  BY DEF Beginning
<1>1. frame[t].op = "start" /\ frame'[t].tx = frame[t].tx OBVIOUS
<1>2. frame[t].tx # 0 BY <1>1, TransferAssumption DEF Sent
<1>3. /\ frame[t].tx \notin DOMAIN txs
      /\ \A u \in Threads : frame[u].tx = frame[t].tx => u = t
      /\ \A r \in late : r.tx = frame[t].tx => r.pc \notin Begun
      /\ \A c \in Clients : client[c].tx = frame[t].tx => client[c].pc \notin Begun
  BY <1>1 DEF Beginning
<1> QED BY <1>1, <1>2, <1>3

\* Of the transactions, only one named x may have been erased; none of its users goes on.
LEMMA OwnedKept ==
  ASSUME Owned, crossed' = crossed, late' \subseteq late, NEW x,
         \A d \in Clients : client'[d].pc \in Begun => client[d].pc \in Begun /\ client'[d].tx = client[d].tx,
         \A d \in Clients : client'[d].pc \in {"feed", "commit"} =>
           /\ client[d].pc \in {"feed", "commit"} /\ client'[d].tx \in TxIds
           /\ client'[d].tx \in crossed \/ client'[d].tx # x,
         \A u \in Threads : \/ frame'[u].tx = 0
                            \/ /\ frame'[u].tx = frame[u].tx /\ frame'[u].for = frame[u].for
                               /\ frame'[u].valid = frame[u].valid \/ frame[u].tx = x
  PROVE  Owned'
<1> SUFFICES ASSUME NEW c \in Clients, client'[c].pc \in {"feed", "commit"}, client'[c].tx \notin crossed
             PROVE  /\ \A d \in Clients : client'[d].tx = client'[c].tx => d = c \/ client'[d].pc \notin Begun
                    /\ \A r \in late' : r.tx = client'[c].tx => r.pc \notin Begun
                    /\ \A t \in Threads : frame'[t].tx = client'[c].tx => frame'[t].for = c /\ frame'[t].valid
  BY DEF Owned
<1>1. client'[c].pc \in Begun BY DEF Begun
<1>2. client[c].pc \in {"feed", "commit"} /\ client'[c].tx = client[c].tx /\ client[c].tx # x BY <1>1
<1>3. client[c].tx # 0 BY <1>2, TransferAssumption
<1>4. /\ \A d \in Clients : client[d].tx = client[c].tx => d = c \/ client[d].pc \notin Begun
      /\ \A r \in late : r.tx = client[c].tx => r.pc \notin Begun
      /\ \A t \in Threads : frame[t].tx = client[c].tx => frame[t].for = c /\ frame[t].valid
  BY <1>2 DEF Owned
<1>5. ASSUME NEW t \in Threads, frame'[t].tx = client'[c].tx PROVE frame'[t].for = c /\ frame'[t].valid
  <2>1. frame'[t].tx = frame[t].tx /\ frame'[t].for = frame[t].for BY <1>2, <1>3, <1>5
  <2>2. frame'[t].valid = frame[t].valid BY <1>2, <1>3, <1>5, <2>1
  <2> QED BY <1>2, <1>4, <1>5, <2>1, <2>2
<1> QED BY <1>2, <1>4, <1>5

LEMMA SealedKept ==
  ASSUME Sealed, crossed' = crossed, late' \subseteq late,
         \A u \in Threads : frame'[u].op = "feed" => frame[u].op = "feed" /\ frame[u].tx = frame'[u].tx,
         \A r \in late' : r.pc = "commit" /\ r.tx \notin crossed /\ r.tx \in DOMAIN txs' =>
           r.tx \in DOMAIN txs /\ txs'[r.tx] = txs[r.tx]
  PROVE  Sealed'
<1> SUFFICES ASSUME NEW r \in late', r.pc = "commit", r.tx \notin crossed
             PROVE  /\ \A s \in late' : s.tx = r.tx => s.pc # "feed"
                    /\ \A t \in Threads : frame'[t].tx = r.tx => frame'[t].op # "feed"
                    /\ r.tx \in DOMAIN txs' => Whole(txs'[r.tx].zone, txs'[r.tx].data)
  BY DEF Sealed, Whole, Full
<1>1. /\ \A s \in late : s.tx = r.tx => s.pc # "feed"
      /\ \A t \in Threads : frame[t].tx = r.tx => frame[t].op # "feed"
      /\ r.tx \in DOMAIN txs => Whole(txs[r.tx].zone, txs[r.tx].data)
  BY DEF Sealed
<1> QED BY <1>1

\* Erasing other transactions, or its own, leaves a transfer what it had.
LEMMA HoldsKept ==
  ASSUME NEW w, NEW open, NEW left, Holds(w, open),
         w.pc \in {"feed", "commit"} /\ w.tx \in DOMAIN left => w.tx \in DOMAIN open /\ left[w.tx] = open[w.tx]
  PROVE  Holds(w, left)
BY DEF Holds

LEMMA HoldsIdle ==
  ASSUME NEW w, NEW open, w.pc \notin {"feed", "commit"}
  PROVE  Holds(w, open)
BY DEF Holds

LEMMA ContentsKept ==
  ASSUME Contents, crossed' = crossed,
         \A c \in Clients : client'[c].tx \notin crossed => Holds(client'[c], txs'),
         \A u \in Threads : frame'[u].op = "commit" =>
           /\ frame[u].op = "commit" /\ frame'[u].tx = frame[u].tx
           /\ frame'[u].zone = frame[u].zone /\ frame'[u].data = frame[u].data
  PROVE  Contents'
<1>1. ASSUME NEW t \in Threads, frame'[t].op = "commit", frame'[t].tx \notin crossed
      PROVE  Whole(frame'[t].zone, frame'[t].data)
  BY <1>1 DEF Contents
<1> QED BY <1>1 DEF Contents, Holds, Whole, Full, Fed

LEMMA UnmixedKept ==
  ASSUME Unmixed, state' = state, mixed' = mixed
  PROVE  Unmixed'
BY DEF Unmixed, Whole, Full

\* Records are fed one after the other.
LEMMA FedMore ==
  ASSUME NEW z, NEW v, NEW k \in 0..Records, k < Records
  PROVE  /\ Fed(z, v, 0) = {} /\ Fed(z, v, k) \union {<<z, v, k + 1>>} = Fed(z, v, k + 1)
         /\ Fed(z, v, Records) = Full(z, v)
<1>1. Records \in Nat BY TransferAssumption
<1>2. 1..0 = {} OBVIOUS
<1>3. Fed(z, v, 0) = {} BY <1>2 DEF Fed
<1>4. 1..(k + 1) = (1..k) \union {k + 1} BY <1>1
<1>5. Fed(z, v, k) \union {<<z, v, k + 1>>} = Fed(z, v, k + 1) BY <1>4 DEF Fed
<1> QED BY <1>3, <1>5 DEF Fed, Full

-----------------------------------------------------------------------------
(* Every step keeps the invariant *)

LEMMA InitHolds == Init => TransferInv
<1> SUFFICES ASSUME Init PROVE TransferInv OBVIOUS
<1>1. DOMAIN txs = {} BY DEF Init
<1>2. TypeOK BY <1>1, Idle, TransferAssumption DEF Init, TypeOK
<1>3. Sent BY Idle DEF Init, Sent, NoFrame
<1>4. Attended BY TransferAssumption DEF Init, Attended, NoFrame
<1>5. Beginning BY DEF Init, Beginning, NoFrame
<1>6. Owned BY DEF Init, Owned, NoTransfer
<1>7. Sealed BY DEF Init, Sealed
<1>8. Contents BY DEF Init, Contents, NoTransfer, NoFrame, Holds
<1>9. Unmixed BY DEF Init, Unmixed
<1> QED BY <1>2, <1>3, <1>4, <1>5, <1>6, <1>7, <1>8, <1>9 DEF TransferInv

\* A name that is not crossed when a transfer starts with it is one that nobody uses.
LEMMA Uncrossed ==
  ASSUME TypeOK, Sent, NEW x, x \notin DOMAIN txs, ~Crossing(x)
  PROVE  /\ \A r \in late : r.tx = x => r.pc \notin Begun
         /\ \A c \in Clients : client[c].tx = x => client[c].pc \notin Begun
         /\ \A t \in Threads : frame[t].tx # x
BY DEF Crossing, Begun

\* A thread starts to work on a request of a client, or on one that was given up.
LEMMA EnterStep ==
  ASSUME TransferInv, NEW t \in Threads, NEW c, NEW r, r.pc \in Busy, Takes(t, c, r, r.pc),
         fresh' = fresh, txs' = txs, state' = state, client' = client, frame' \in [Threads -> Frames],
         \A u \in Threads : u # t => frame'[u] = frame[u],
         frame'[t].op = r.pc, frame'[t].for = c, frame'[t].tx = r.tx, frame'[t].valid,
         frame'[t].zone \in Zones,
         r.pc # "start" => crossed' = crossed,
         r.pc = "start" =>
           /\ r.tx \notin DOMAIN txs /\ frame'[t].zone = r.zone
           /\ crossed' = IF Crossing(r.tx) THEN crossed \union {r.tx} ELSE crossed \ {r.tx},
         r.pc = "feed" => frame'[t].data = {<<r.zone, r.version, r.fed + 1>>},
         r.pc = "commit" => r.tx \in DOMAIN txs /\ frame'[t].zone = txs[r.tx].zone /\ frame'[t].data = txs[r.tx].data
  PROVE  TransferInv'
<1> USE DEF TransferInv
<1> DEFINE x == r.tx
<1>0. Nobody \notin Clients /\ 0 \notin TxIds BY TransferAssumption
<1>1. /\ c \in Clients \union {Nobody}
      /\ r \in Transfers /\ Wellformed(r)
      /\ frame[t].op = "idle" /\ frame[t].for = Nobody /\ frame[t].tx = 0
      /\ c \in Clients => r = client[c] /\ (\A u \in Threads : frame[u].for # c) /\ late' = late
      /\ c = Nobody => r \in late /\ late' = late \ {r}
      /\ late' \subseteq late
      /\ domainIds' = domainIds /\ serial' = serial /\ second' = second /\ faults' = faults
      /\ mixed' = mixed
  <2>1. r.pc # "idle" BY DEF Busy
  <2> QED BY <2>1, TakesWhat
<1>2. x \in TxIds /\ r.zone \in Zones BY <1>1 DEF Wellformed, Busy
<1>3. r.pc \in {"feed", "commit"} => r.pc \in Begun BY DEF Begun
\* The other names are as before; the name itself is crossed, or nobody used it.
<1>4. /\ crossed' \subseteq TxIds
      /\ \A y : y # x => (y \in crossed' <=> y \in crossed)
      /\ r.pc = "start" /\ x \notin crossed' =>
           /\ \A s \in late : s.tx = x => s.pc \notin Begun
           /\ \A d \in Clients : client[d].tx = x => client[d].pc \notin Begun
           /\ \A u \in Threads : frame[u].tx # x
  <2>1. CASE r.pc # "start" BY <2>1 DEF TypeOK
  <2>2. CASE r.pc = "start" /\ Crossing(x) BY <1>2, <2>2 DEF TypeOK
  <2>3. CASE r.pc = "start" /\ ~Crossing(x) BY <1>2, <2>3, Uncrossed DEF TypeOK
  <2> QED BY <2>1, <2>2, <2>3
<1>5. TypeOK' BY <1>1, <1>4 DEF TypeOK
<1>6. Sent' BY <1>1, <1>2 DEF Sent, Busy, Wellformed
<1>7. Attended'
  <2>1. ASSUME NEW u \in Threads, NEW d \in Clients, frame'[u].for = d
        PROVE  /\ frame'[u].tx = client'[d].tx /\ client'[d].pc = AskedFor(frame'[u].op)
               /\ frame'[u].op = "start" => frame'[u].zone = client'[d].zone
               /\ frame'[u].op = "feed" =>
                    frame'[u].data = {<<client'[d].zone, client'[d].version, client'[d].fed + 1>>}
    <3>1. CASE u = t BY <1>0, <1>1, <2>1, <3>1 DEF AskedFor, Busy
    <3>2. CASE u # t BY <2>1, <3>2 DEF Attended
    <3> QED BY <3>1, <3>2
  <2>2. ASSUME NEW u \in Threads, NEW w \in Threads, frame'[u].for = frame'[w].for
        PROVE  u = w \/ frame'[u].for = Nobody
    <3>1. CASE u = t \/ w = t BY <1>1, <2>2, <3>1
    <3>2. CASE u # t /\ w # t BY <2>2, <3>2 DEF Attended
    <3> QED BY <3>1, <3>2
  <2> QED BY <2>1, <2>2 DEF Attended
<1>8. Beginning'
  <2> SUFFICES ASSUME NEW u \in Threads, frame'[u].op = "start", frame'[u].tx \notin crossed'
               PROVE  /\ frame'[u].tx \notin DOMAIN txs
                      /\ \A w \in Threads : frame'[w].tx = frame'[u].tx => w = u
                      /\ \A s \in late : s.tx = frame'[u].tx => s.pc \notin Begun
                      /\ \A d \in Clients : client[d].tx = frame'[u].tx => client[d].pc \notin Begun
    BY <1>1 DEF Beginning
  <2>1. CASE u = t BY <1>4, <2>1
  <2>2. CASE u # t
    <3>1. frame'[u].tx = x => r.pc # "start" BY <1>4, <2>2
    <3>2. frame[u].op = "start" /\ frame'[u].tx = frame[u].tx /\ frame[u].tx \notin crossed BY <1>4, <2>2, <3>1
    <3>3. /\ frame[u].tx \notin DOMAIN txs
          /\ \A w \in Threads : frame[w].tx = frame[u].tx => w = u
          /\ \A s \in late : s.tx = frame[u].tx => s.pc \notin Begun
          /\ \A d \in Clients : client[d].tx = frame[u].tx => client[d].pc \notin Begun
      BY <3>2 DEF Beginning
    <3>4. frame[u].tx # x
      <4> SUFFICES ASSUME frame[u].tx = x PROVE FALSE OBVIOUS
      <4>1. r.pc \in Begun BY <1>3, <3>1, <3>2 DEF Busy
      <4> QED BY <1>1, <3>3, <4>1
    <3> QED BY <3>2, <3>3, <3>4
  <2> QED BY <2>1, <2>2
<1>9. Owned'
  <2> SUFFICES ASSUME NEW d \in Clients, client[d].pc \in {"feed", "commit"}, client[d].tx \notin crossed'
               PROVE  /\ \A e \in Clients : client[e].tx = client[d].tx => e = d \/ client[e].pc \notin Begun
                      /\ \A s \in late : s.tx = client[d].tx => s.pc \notin Begun
                      /\ \A u \in Threads : frame'[u].tx = client[d].tx => frame'[u].for = d /\ frame'[u].valid
    BY <1>1 DEF Owned
  <2>1. client[d].pc \in Begun BY DEF Begun
  <2>2. client[d].tx = x => r.pc # "start" BY <1>4, <2>1
  <2>3. client[d].tx \notin crossed BY <1>4, <2>2
  <2>4. /\ \A e \in Clients : client[e].tx = client[d].tx => e = d \/ client[e].pc \notin Begun
        /\ \A s \in late : s.tx = client[d].tx => s.pc \notin Begun
        /\ \A u \in Threads : frame[u].tx = client[d].tx => frame[u].for = d /\ frame[u].valid
    BY <2>3 DEF Owned
  <2>5. client[d].tx = x => c = d
    <3> SUFFICES ASSUME client[d].tx = x PROVE c = d OBVIOUS
    <3>1. r.pc \in Begun BY <1>3, <2>2 DEF Busy
    <3> QED BY <1>1, <2>4, <3>1
  <2> QED BY <2>4, <2>5
<1>10. Sealed'
  <2> SUFFICES ASSUME NEW s \in late', s.pc = "commit", s.tx \notin crossed'
               PROVE  /\ \A q \in late : q.tx = s.tx => q.pc # "feed"
                      /\ \A u \in Threads : frame'[u].tx = s.tx => frame'[u].op # "feed"
                      /\ s.tx \in DOMAIN txs => Whole(txs[s.tx].zone, txs[s.tx].data)
    BY <1>1 DEF Sealed, Whole, Full
  <2>1. s \in late /\ s.pc \in Begun BY <1>1 DEF Begun
  <2>2. s.tx = x => r.pc # "start" BY <1>4, <2>1
  <2>3. s.tx \notin crossed BY <1>4, <2>2
  <2>4. /\ \A q \in late : q.tx = s.tx => q.pc # "feed"
        /\ \A u \in Threads : frame[u].tx = s.tx => frame[u].op # "feed"
        /\ s.tx \in DOMAIN txs => Whole(txs[s.tx].zone, txs[s.tx].data)
    BY <2>1, <2>3 DEF Sealed
  <2>5. x = s.tx => r.pc # "feed"
    <3> SUFFICES ASSUME x = s.tx, r.pc = "feed" PROVE FALSE OBVIOUS
    <3>1. c # Nobody BY <1>1, <2>4
    <3>2. c \in Clients /\ client[c].pc = "feed" /\ client[c].tx = s.tx BY <1>1, <3>1
    <3> QED BY <2>1, <2>3, <3>2 DEF Owned
  <2> QED BY <2>4, <2>5
<1>11. Contents'
  <2>1. ASSUME NEW d \in Clients, client[d].tx \notin crossed' PROVE Holds(client[d], txs)
    <3>1. CASE client[d].pc \notin {"feed", "commit"} BY <3>1, HoldsIdle
    <3>2. CASE client[d].pc \in {"feed", "commit"}
      <4>1. client[d].tx = x => r.pc # "start" BY <1>4, <2>1, <3>2 DEF Begun
      <4>2. client[d].tx \notin crossed BY <1>4, <2>1, <4>1
      <4> QED BY <4>2 DEF Contents
    <3> QED BY <3>1, <3>2
  <2>2. ASSUME NEW u \in Threads, frame'[u].op = "commit", frame'[u].tx \notin crossed'
        PROVE  Whole(frame'[u].zone, frame'[u].data)
    <3>1. CASE u # t
      <4>1. frame[u].tx = x => r.pc # "start" BY <1>4, <2>2, <3>1
      <4>2. frame[u].tx \notin crossed BY <1>4, <2>2, <3>1, <4>1
      <4> QED BY <2>2, <3>1, <4>2 DEF Contents
    <3>2. CASE u = t /\ c = Nobody
      <4>1. r \in late /\ r.pc = "commit" /\ r.tx \notin crossed BY <1>1, <2>2, <3>2
      <4> QED BY <2>2, <3>2, <4>1 DEF Sealed
    <3>3. CASE u = t /\ c \in Clients
      <4>1. client[c].pc = "commit" /\ client[c].tx \in DOMAIN txs /\ client[c].tx \notin crossed /\ r = client[c]
        BY <1>1, <2>2, <3>3
      <4>2. txs[r.tx] = [zone |-> r.zone, data |-> Full(r.zone, r.version)] BY <3>3, <4>1 DEF Contents, Holds
      <4>3. r.version \in 1..MaxVersion BY <1>1, <2>2, <3>3, TransferAssumption DEF Wellformed, Transfers
      <4> QED BY <2>2, <3>3, <4>2, <4>3 DEF Whole
    <3> QED BY <1>1, <3>1, <3>2, <3>3
  <2> QED BY <2>1, <2>2 DEF Contents, Holds, Whole, Full, Fed
<1>12. Unmixed' BY <1>1, UnmixedKept
<1> QED BY <1>5, <1>6, <1>7, <1>8, <1>9, <1>10, <1>11, <1>12

\* A request is refused, or it is an abort or a notice, which is handled at once.
LEMMA AnswerStep ==
  ASSUME TransferInv, NEW t \in Threads, NEW c, NEW r, NEW ok \in BOOLEAN, r.pc # "idle", Takes(t, c, r, r.pc),
         ok => r.pc \notin {"start", "feed"}, Reply(c, ok), state' = state, fresh' \subseteq Nat, crossed' = crossed,
         (Erase(t, r.tx, NoFrame) /\ r.pc = "abort") \/ (txs' = txs /\ frame' = frame)
  PROVE  TransferInv'
<1> USE DEF TransferInv
<1>0. Nobody \notin Clients /\ 0 \notin TxIds BY TransferAssumption
<1>1. /\ c \in Clients \union {Nobody}
      /\ r \in Transfers /\ Wellformed(r)
      /\ frame[t].op = "idle" /\ frame[t].for = Nobody /\ frame[t].tx = 0
      /\ c \in Clients => r = client[c] /\ (\A u \in Threads : frame[u].for # c)
      /\ c = Nobody => r \in late
      /\ late' \subseteq late
      /\ domainIds' = domainIds /\ serial' = serial /\ second' = second /\ faults' = faults
      /\ mixed' = mixed
  BY TakesWhat
<1>2. /\ client' \in [Clients -> Transfers]
      /\ \A d \in Clients : Wellformed(client'[d])
      /\ \A d \in Clients : client'[d].tx \in {client[d].tx, 0} /\ (d # c => client'[d] = client[d])
      /\ c \in Clients => client'[c] = Answered(client[c], ok)
  BY <1>1, ReplyWhat
<1>3. c \in Clients =>
        /\ client'[c].pc \notin Busy
        /\ client'[c].pc = "abort" => client[c].pc = "feed" /\ client'[c].tx = client[c].tx
  <2> SUFFICES ASSUME c \in Clients
               PROVE  /\ Answered(client[c], ok).pc \notin Busy
                      /\ Answered(client[c], ok).pc = "abort" =>
                           client[c].pc = "feed" /\ Answered(client[c], ok).tx = client[c].tx
    BY <1>2
  <2>1. client[c] \in Transfers /\ Wellformed(client[c]) BY DEF TypeOK, Sent
  <2> QED BY <1>1, <2>1, AnsweredWhat
<1>4. /\ frame' \in [Threads -> Frames] /\ frame'[t].op = "idle" /\ frame'[t].for = Nobody /\ frame'[t].tx = 0
      /\ \A u \in Threads : u # t =>
           /\ frame'[u].op = frame[u].op /\ frame'[u].for = frame[u].for /\ frame'[u].zone = frame[u].zone
           /\ frame'[u].tx = frame[u].tx /\ frame'[u].data = frame[u].data
           /\ (frame'[u] = frame[u]) \/ (r.pc = "abort" /\ frame[u].tx = r.tx)
      /\ DOMAIN txs' \subseteq DOMAIN txs /\ \A y \in DOMAIN txs' : txs'[y] = txs[y]
  <2>1. CASE Erase(t, r.tx, NoFrame) /\ r.pc = "abort"
    <3>1. /\ frame' \in [Threads -> Frames] /\ frame'[t] = NoFrame
          /\ \A u \in Threads : u # t =>
              /\ frame'[u].op = frame[u].op /\ frame'[u].for = frame[u].for /\ frame'[u].zone = frame[u].zone
              /\ frame'[u].tx = frame[u].tx /\ frame'[u].data = frame[u].data
              /\ frame[u].tx # r.tx => frame'[u] = frame[u]
          /\ DOMAIN txs' = DOMAIN txs \ {r.tx}
          /\ \A y \in DOMAIN txs' : txs'[y] = txs[y]
      BY <2>1, EraseWhat
    <3> QED BY <2>1, <3>1 DEF NoFrame
  <2>2. CASE txs' = txs /\ frame' = frame BY <1>1, <2>2 DEF TypeOK
  <2> QED BY <2>1, <2>2
<1>5. TypeOK' BY <1>1, <1>2, <1>4 DEF TypeOK
<1>6. Sent'
  <2>1. \A s \in late' : Wellformed(s) BY <1>1 DEF Sent
  <2>2. \A u \in Threads : IF frame'[u].op = "idle" THEN frame'[u].for = Nobody /\ frame'[u].tx = 0
                           ELSE frame'[u].zone \in Zones /\ frame'[u].tx \in TxIds
    BY <1>4 DEF Sent
  <2> QED BY <1>2, <2>1, <2>2 DEF Sent, Wellformed
\* A client that feeds or commits is not the one answered, and its name is not erased.
<1>7. ASSUME NEW d \in Clients, client'[d].pc \in {"feed", "commit"}
      PROVE  /\ d # c /\ client'[d] = client[d] /\ client'[d].tx \in TxIds
             /\ client'[d].tx \in crossed \/ r.pc # "abort" \/ client'[d].tx # r.tx
  <2>1. d # c /\ client'[d] = client[d] BY <1>2, <1>3, <1>7 DEF Busy
  <2>2. client[d].tx \in TxIds BY <1>7, <2>1 DEF Sent, Wellformed, Busy
  <2>3. ASSUME client[d].tx \notin crossed, r.pc = "abort", client[d].tx = r.tx PROVE FALSE
    <3>1. /\ \A e \in Clients : client[e].tx = client[d].tx => e = d \/ client[e].pc \notin Begun
          /\ \A s \in late : s.tx = client[d].tx => s.pc \notin Begun
      BY <1>7, <2>1, <2>3 DEF Owned
    <3>2. r.pc \in Begun BY <2>3 DEF Begun
    <3> QED BY <1>1, <2>1, <2>3, <3>1, <3>2
  <2> QED BY <2>1, <2>2, <2>3
<1>8. ASSUME NEW d \in Clients, client'[d].pc \in Begun PROVE client[d].pc \in Begun /\ client'[d].tx = client[d].tx
  <2>1. CASE d # c BY <1>2, <1>8, <2>1
  <2>2. CASE d = c BY <1>3, <1>8, <2>2 DEF Begun, Busy
  <2> QED BY <2>1, <2>2
<1>9. Attended'
  <2>1. ASSUME NEW u \in Threads
        PROVE  \/ frame'[u].for = Nobody
               \/ /\ frame'[u].for = frame[u].for /\ frame'[u].tx = frame[u].tx
                  /\ AskedFor(frame'[u].op) = AskedFor(frame[u].op)
                  /\ frame'[u].op \in {"start", "feed"} =>
                       frame'[u].op = frame[u].op /\ frame'[u].zone = frame[u].zone /\ frame'[u].data = frame[u].data
    BY <1>4
  <2>2. ASSUME NEW u \in Threads, NEW d \in Clients, frame'[u].for = d PROVE client'[d] = client[d]
    BY <1>0, <1>1, <1>2, <1>4, <2>2
  <2> QED BY <2>1, <2>2, AttendedKept
<1>10. Beginning'
  <2>1. \A u \in Threads : \/ frame'[u].tx = 0 /\ frame'[u].op = "idle"
                           \/ frame'[u].tx = frame[u].tx /\ frame'[u].op \in {frame[u].op, "erase"}
    BY <1>4
  <2> QED BY <1>1, <1>4, <1>8, <2>1, BeginningKept
<1>11. Owned'
  <2> DEFINE x == IF r.pc = "abort" THEN r.tx ELSE 0
  <2>1. \A d \in Clients : client'[d].pc \in {"feed", "commit"} =>
          /\ client[d].pc \in {"feed", "commit"} /\ client'[d].tx \in TxIds
          /\ client'[d].tx \in crossed \/ client'[d].tx # x
    BY <1>0, <1>7
  <2>2. \A u \in Threads : \/ frame'[u].tx = 0
                           \/ /\ frame'[u].tx = frame[u].tx /\ frame'[u].for = frame[u].for
                              /\ frame'[u].valid = frame[u].valid \/ frame[u].tx = x
    BY <1>4
  <2> HIDE DEF x
  <2> QED BY <1>1, <1>8, <2>1, <2>2, OwnedKept
<1>12. Sealed'
  <2>1. \A u \in Threads : frame'[u].op = "feed" => frame[u].op = "feed" /\ frame[u].tx = frame'[u].tx BY <1>4
  <2> QED BY <1>1, <1>4, <2>1, SealedKept
<1>13. Contents'
  <2>1. ASSUME NEW d \in Clients, client'[d].tx \notin crossed PROVE Holds(client'[d], txs')
    <3>1. CASE client'[d].pc \notin {"feed", "commit"} BY <3>1, HoldsIdle
    <3>2. CASE client'[d].pc \in {"feed", "commit"}
      <4>1. client'[d] = client[d] /\ Holds(client[d], txs) BY <1>7, <2>1, <3>2 DEF Contents
      <4>2. Holds(client[d], txs') BY <1>4, <4>1, HoldsKept
      <4> QED BY <4>1, <4>2
    <3> QED BY <3>1, <3>2
  <2>2. \A u \in Threads : frame'[u].op = "commit" =>
           /\ frame[u].op = "commit" /\ frame'[u].tx = frame[u].tx
           /\ frame'[u].zone = frame[u].zone /\ frame'[u].data = frame[u].data
    BY <1>4
  <2> QED BY <2>1, <2>2, ContentsKept
<1>14. Unmixed' BY <1>1, UnmixedKept
<1> QED BY <1>5, <1>6, <1>9, <1>10, <1>11, <1>12, <1>13, <1>14

LEMMA HandleStep ==
  ASSUME TransferInv, NEW t \in Threads, NEW c, NEW r, Handle(t, c, r)
  PROVE  TransferInv'
<1> USE DEF TransferInv
<1>0. fresh' = fresh => fresh' \subseteq Nat BY DEF TypeOK
<1>1. CASE startTransaction(t, c, r) \/ feedRecord(t, c, r) \/ commitTransaction(t, c, r)
  <2>1. /\ r.pc \in Busy /\ Takes(t, c, r, r.pc) /\ fresh' = fresh /\ txs' = txs /\ state' = state
        /\ r.pc # "start" => crossed' = crossed
    BY <1>1, RequestWhat
  <2>2. CASE Reply(c, FALSE) /\ frame' = frame /\ crossed' = crossed
    <3>1. r.pc # "idle" BY <2>1 DEF Busy
    <3> QED BY <1>0, <2>1, <2>2, <3>1, AnswerStep
  <2>3. CASE ~(Reply(c, FALSE) /\ frame' = frame /\ crossed' = crossed)
    <3>1. /\ client' = client /\ frame' \in [Threads -> Frames]
          /\ \A u \in Threads : u # t => frame'[u] = frame[u]
          /\ frame'[t].op = r.pc /\ frame'[t].for = c /\ frame'[t].tx = r.tx /\ frame'[t].valid
          /\ frame'[t].zone \in Zones
          /\ r.pc = "start" =>
               /\ r.tx \notin DOMAIN txs /\ frame'[t].zone = r.zone
               /\ crossed' = IF Crossing(r.tx) THEN crossed \union {r.tx} ELSE crossed \ {r.tx}
          /\ r.pc = "feed" => frame'[t].data = {<<r.zone, r.version, r.fed + 1>>}
          /\ r.pc = "commit" =>
               r.tx \in DOMAIN txs /\ frame'[t].zone = txs[r.tx].zone /\ frame'[t].data = txs[r.tx].data
      BY <1>1, <2>3, RequestWhat
    <3> QED BY <2>1, <3>1, EnterStep
  <2> QED BY <2>2, <2>3
<1>2. CASE abortTransaction(t, c, r) \/ setFresh(t, c, r)
  <2>1. /\ Takes(t, c, r, r.pc) /\ r.pc \in {"abort", "fresh"} /\ Reply(c, TRUE) /\ state' = state
        /\ crossed' = crossed
        /\ \/ Erase(t, r.tx, NoFrame) /\ fresh' = fresh /\ r.pc = "abort"
           \/ txs' = txs /\ frame' = frame /\ fresh' = fresh \union {r.id}
    BY <1>2, NoticeWhat
  <2>2. r.pc # "idle" /\ r.pc \notin {"start", "feed"} BY <2>1
  <2>3. r.id \in Nat BY <2>1, <2>2, TakesWhat DEF Transfers
  <2>4. fresh' \subseteq Nat BY <2>1, <2>3 DEF TypeOK
  <2> QED BY <2>1, <2>2, <2>4, AnswerStep
<1> QED BY <1>1, <1>2 DEF Handle

\* The process ends.
LEMMA EndsStep ==
  ASSUME TransferInv, Ends, serial' = serial, faults' \in 0..MaxFaults
  PROVE  TransferInv'
<1> USE DEF TransferInv
<1>1. /\ domainIds' \in [Zones -> Nat] /\ fresh' = {} /\ DOMAIN txs' = {} /\ second' = second /\ late' = {}
      /\ mixed' = {} /\ crossed' = crossed
      /\ state' = [z \in Zones |-> {}] /\ frame' = [u \in Threads |-> NoFrame]
      /\ client' \in [Clients -> Transfers]
      /\ \A c \in Clients :
           /\ Wellformed(client'[c]) /\ client'[c].tx \in {client[c].tx, 0}
           /\ \/ client'[c] = client[c]
              \/ /\ client'[c].pc \notin Busy
                 /\ client'[c].pc = "abort" => client[c].pc \in {"feed", "commit"} /\ client'[c].tx = client[c].tx
  BY EndsWhat
<1>2. \A u \in Threads : frame'[u] = NoFrame BY <1>1
<1>3. frame' \in [Threads -> Frames] BY <1>1, Idle
<1>4. TypeOK' BY <1>1, <1>3 DEF TypeOK
<1>5. Sent' BY <1>1, <1>2 DEF Sent, NoFrame, Wellformed
<1>6. ASSUME NEW d \in Clients, client'[d].pc \in Begun PROVE client[d].pc \in Begun /\ client'[d].tx = client[d].tx
  BY <1>1, <1>6 DEF Begun, Busy
<1>7. \A u \in Threads : frame'[u].tx = 0 /\ frame'[u].for = Nobody /\ frame'[u].op = "idle" BY <1>2 DEF NoFrame
<1>8. Attended'
  <2>1. \A u \in Threads, d \in Clients : frame'[u].for = d => client'[d] = client[d] BY <1>7, TransferAssumption
  <2> QED BY <1>7, <2>1, AttendedKept
<1>9. Beginning' BY <1>7 DEF Beginning
<1>10. Owned'
  <2>1. \A d \in Clients : client'[d].pc \in {"feed", "commit"} =>
          client[d].pc \in {"feed", "commit"} /\ client'[d].tx \in TxIds /\ client'[d].tx # 0
    BY <1>1, TransferAssumption DEF Busy, Wellformed
  <2> QED BY <1>1, <1>6, <1>7, <2>1, OwnedKept
<1>11. Sealed' BY <1>1 DEF Sealed
<1>12. Contents'
  <2>1. \A c \in Clients : Holds(client'[c], txs') BY <1>1 DEF Holds
  <2> QED BY <1>1, <1>7, <2>1, ContentsKept
<1>13. Unmixed' BY <1>1 DEF Unmixed
<1> QED BY <1>4, <1>5, <1>8, <1>9, <1>10, <1>11, <1>12, <1>13

\* A client gives its request up.
LEMMA TimeOutStep ==
  ASSUME TransferInv, NEW c \in Clients, TimeOut(c)
  PROVE  TransferInv'
<1> USE DEF TransferInv
<1>0. Nobody \notin Clients /\ 0 \notin TxIds BY TransferAssumption
<1>1. /\ client' \in [Clients -> Transfers] /\ second' \in {0, second} /\ faults' \in 0..MaxFaults
      /\ crossed' = crossed /\ mixed' = mixed
      /\ \A d \in Clients : d # c => client'[d] = client[d]
      /\ Wellformed(client'[c]) /\ client'[c].tx \in {client[c].tx, 0} /\ client'[c].pc \notin Busy
      /\ client'[c].pc = "abort" => client[c].pc \in {"feed", "commit"} /\ client'[c].tx = client[c].tx
      /\ frame' \in [Threads -> Frames]
      /\ \A t \in Threads :
           /\ frame'[t].for = IF frame[t].for = c THEN Nobody ELSE frame[t].for
           /\ frame'[t].op = frame[t].op /\ frame'[t].zone = frame[t].zone /\ frame'[t].tx = frame[t].tx
           /\ frame'[t].data = frame[t].data /\ frame'[t].valid = frame[t].valid
      /\ late' = late \/ (late' = late \union {client[c]} /\ frame' = frame /\ ~Taken(c))
  BY TimeOutWhat
<1>2. domainIds' = domainIds /\ fresh' = fresh /\ txs' = txs /\ state' = state /\ serial' = serial BY DEF TimeOut
<1>3. client[c] \in Transfers /\ Wellformed(client[c]) BY DEF TypeOK, Sent
<1>4. late' \subseteq late \union {client[c]} BY <1>1
<1>5. TypeOK' BY <1>1, <1>2, <1>3, <1>4 DEF TypeOK
<1>6. Sent'
  <2>1. \A d \in Clients : Wellformed(client'[d]) BY <1>1 DEF Sent
  <2>2. \A r \in late' : Wellformed(r) BY <1>3, <1>4 DEF Sent
  <2>3. \A t \in Threads : IF frame'[t].op = "idle" THEN frame'[t].for = Nobody /\ frame'[t].tx = 0
                           ELSE frame'[t].zone \in Zones /\ frame'[t].tx \in TxIds
    BY <1>1 DEF Sent
  <2> QED BY <2>1, <2>2, <2>3 DEF Sent, Wellformed
<1>7. ASSUME NEW d \in Clients, client'[d].pc \in Begun PROVE client[d].pc \in Begun /\ client'[d].tx = client[d].tx
  <2>1. CASE d # c BY <1>1, <1>7, <2>1
  <2>2. CASE d = c BY <1>1, <1>7, <2>2 DEF Begun, Busy
  <2> QED BY <2>1, <2>2
<1>8. Attended'
  <2>1. ASSUME NEW u \in Threads, NEW d \in Clients, frame'[u].for = d PROVE d # c /\ client'[d] = client[d]
    BY <1>0, <1>1, <2>1
  <2> QED BY <1>1, <2>1, AttendedKept
<1>9. Beginning'
  <2> SUFFICES ASSUME NEW t \in Threads, frame'[t].op = "start", frame'[t].tx \notin crossed
               PROVE  /\ frame'[t].tx \notin DOMAIN txs
                      /\ \A u \in Threads : frame'[u].tx = frame'[t].tx => u = t
                      /\ \A r \in late' : r.tx = frame'[t].tx => r.pc \notin Begun
                      /\ \A d \in Clients : client'[d].tx = frame'[t].tx => client'[d].pc \notin Begun
    BY <1>1, <1>2 DEF Beginning
  <2>1. frame[t].op = "start" /\ frame'[t].tx = frame[t].tx /\ frame[t].tx \notin crossed BY <1>1
  <2>2. /\ frame[t].tx \notin DOMAIN txs
        /\ \A u \in Threads : frame[u].tx = frame[t].tx => u = t
        /\ \A r \in late : r.tx = frame[t].tx => r.pc \notin Begun
        /\ \A d \in Clients : client[d].tx = frame[t].tx => client[d].pc \notin Begun
    BY <2>1 DEF Beginning
  <2>3. \A r \in late' : r.tx = frame[t].tx => r.pc \notin Begun BY <1>4, <2>2
  <2>4. \A d \in Clients : client'[d].tx = frame[t].tx => client'[d].pc \notin Begun BY <1>7, <2>2
  <2> QED BY <1>1, <2>1, <2>2, <2>3, <2>4
<1>10. Owned'
  <2> SUFFICES ASSUME NEW d \in Clients, client'[d].pc \in {"feed", "commit"}, client'[d].tx \notin crossed
               PROVE  /\ \A e \in Clients : client'[e].tx = client'[d].tx => e = d \/ client'[e].pc \notin Begun
                      /\ \A r \in late' : r.tx = client'[d].tx => r.pc \notin Begun
                      /\ \A t \in Threads : frame'[t].tx = client'[d].tx => frame'[t].for = d /\ frame'[t].valid
    BY <1>1 DEF Owned
  <2>1. d # c /\ client'[d] = client[d] BY <1>1 DEF Busy
  <2>2. /\ \A e \in Clients : client[e].tx = client[d].tx => e = d \/ client[e].pc \notin Begun
        /\ \A r \in late : r.tx = client[d].tx => r.pc \notin Begun
        /\ \A t \in Threads : frame[t].tx = client[d].tx => frame[t].for = d /\ frame[t].valid
    BY <2>1 DEF Owned
  <2>3. \A e \in Clients : client'[e].tx = client[d].tx => e = d \/ client'[e].pc \notin Begun BY <1>7, <2>2
  <2>4. \A r \in late' : r.tx = client[d].tx => r.pc \notin Begun BY <1>4, <2>1, <2>2
  <2>5. \A t \in Threads : frame'[t].tx = client[d].tx => frame'[t].for = d /\ frame'[t].valid BY <1>1, <2>1, <2>2
  <2> QED BY <2>1, <2>3, <2>4, <2>5
\* A commit that is given up before a thread took it is of a transaction that is complete.
<1>11. Sealed'
  <2> SUFFICES ASSUME NEW r \in late', r.pc = "commit", r.tx \notin crossed
               PROVE  /\ \A s \in late' : s.tx = r.tx => s.pc # "feed"
                      /\ \A t \in Threads : frame'[t].tx = r.tx => frame'[t].op # "feed"
                      /\ r.tx \in DOMAIN txs => Whole(txs[r.tx].zone, txs[r.tx].data)
    BY <1>1, <1>2 DEF Sealed, Whole, Full
  <2>1. r.pc \in Begun BY DEF Begun
  <2>2. CASE r \in late
    <3>1. /\ \A s \in late : s.tx = r.tx => s.pc # "feed"
          /\ \A t \in Threads : frame[t].tx = r.tx => frame[t].op # "feed"
          /\ r.tx \in DOMAIN txs => Whole(txs[r.tx].zone, txs[r.tx].data)
      BY <2>2 DEF Sealed
    <3>2. client[c].tx = r.tx => client[c].pc # "feed" BY <2>1, <2>2 DEF Owned
    <3> QED BY <1>1, <1>4, <3>1, <3>2
  <2>3. CASE r = client[c] /\ late' = late \union {client[c]} /\ frame' = frame /\ ~Taken(c)
    <3>1. /\ \A s \in late : s.tx = r.tx => s.pc \notin Begun
          /\ \A t \in Threads : frame[t].tx = r.tx => frame[t].for = c
      BY <2>3 DEF Owned
    <3>2. r.tx \in DOMAIN txs => txs[r.tx] = [zone |-> r.zone, data |-> Full(r.zone, r.version)]
      BY <2>3 DEF Contents, Holds
    <3>3. r.version \in 1..MaxVersion BY <1>3, <2>3, TransferAssumption DEF Wellformed, Transfers, Busy
    <3>4. r.tx \in DOMAIN txs => Whole(txs[r.tx].zone, txs[r.tx].data) BY <3>2, <3>3 DEF Whole
    <3> QED BY <2>3, <3>1, <3>4 DEF Begun, Taken
  <2> QED BY <1>1, <2>2, <2>3
<1>12. Contents'
  <2>1. ASSUME NEW d \in Clients, client'[d].tx \notin crossed PROVE Holds(client'[d], txs')
    <3>1. CASE d = c BY <1>1, <3>1, HoldsIdle DEF Busy
    <3>2. CASE d # c
      <4>1. client'[d] = client[d] /\ Holds(client[d], txs) BY <1>1, <2>1, <3>2 DEF Contents
      <4> QED BY <1>2, <4>1
    <3> QED BY <3>1, <3>2
  <2>2. \A u \in Threads : frame'[u].op = "commit" =>
           /\ frame[u].op = "commit" /\ frame'[u].tx = frame[u].tx
           /\ frame'[u].zone = frame[u].zone /\ frame'[u].data = frame[u].data
    BY <1>1
  <2> QED BY <1>1, <2>1, <2>2, ContentsKept
<1>13. Unmixed' BY <1>1, <1>2, UnmixedKept
<1> QED BY <1>5, <1>6, <1>8, <1>9, <1>10, <1>11, <1>12, <1>13

\* A client takes up a zone.
LEMMA PollStep ==
  ASSUME TransferInv, NEW c \in Clients, NEW z \in Zones, Poll(c, z)
  PROVE  TransferInv'
<1> USE DEF TransferInv
<1>0. Nobody \notin Clients /\ 0 \notin TxIds BY TransferAssumption
<1>1. /\ domainIds' \in [Zones -> Nat] /\ client' \in [Clients -> Transfers]
      /\ client[c].pc = "idle" /\ Wellformed(client'[c]) /\ client'[c].pc \in {"fresh", "start"}
      /\ \A d \in Clients : d # c => client'[d] = client[d]
      /\ second' \in TxIds \union {0}
      /\ fresh' = fresh /\ txs' = txs /\ state' = state /\ frame' = frame /\ late' = late /\ serial' = serial
      /\ faults' = faults /\ crossed' = crossed /\ mixed' = mixed
  <2>1. second \in TxIds \union {0} BY DEF TypeOK
  <2>2. client'[c].pc = "start" => client'[c].tx \in TxIds BY PollWhat DEF Wellformed, Busy
  <2> QED BY <2>1, <2>2, PollWhat
<1>2. \A t \in Threads : frame[t].for # c
  <2> SUFFICES ASSUME NEW t \in Threads, frame[t].for = c PROVE FALSE OBVIOUS
  <2>1. client[c].pc = AskedFor(frame[t].op) BY DEF Attended
  <2>2. frame[t].op = "idle" BY <1>1, <2>1 DEF AskedFor
  <2> QED BY <1>0, <2>2 DEF Sent
<1>3. TypeOK' BY <1>1 DEF TypeOK
<1>4. Sent'
  <2>1. \A d \in Clients : Wellformed(client'[d]) BY <1>1 DEF Sent
  <2> QED BY <1>1, <2>1 DEF Sent, Wellformed
<1>5. ASSUME NEW d \in Clients, client'[d].pc \in Begun PROVE client'[d] = client[d]
  BY <1>1, <1>5 DEF Begun
<1>6. Attended'
  <2>1. ASSUME NEW u \in Threads, NEW d \in Clients, frame'[u].for = d PROVE client'[d] = client[d]
    BY <1>1, <1>2, <2>1
  <2> QED BY <1>1, <2>1, AttendedKept
<1>7. Beginning' BY <1>1, <1>5, BeginningKept
<1>8. Owned'
  <2>1. \A d \in Clients : client'[d].pc \in {"feed", "commit"} =>
          client'[d] = client[d] /\ client'[d].tx \in TxIds /\ client'[d].tx # 0
    BY <1>0, <1>4, <1>5 DEF Sent, Wellformed, Busy, Begun
  <2> QED BY <1>1, <1>5, <2>1, OwnedKept
<1>9. Sealed' BY <1>1, SealedKept
<1>10. Contents'
  <2>1. ASSUME NEW d \in Clients, client'[d].tx \notin crossed PROVE Holds(client'[d], txs')
    <3>1. CASE client'[d].pc \notin Begun BY <3>1, HoldsIdle DEF Begun
    <3>2. CASE client'[d].pc \in Begun
      <4>1. client'[d] = client[d] /\ Holds(client[d], txs) BY <1>5, <2>1, <3>2 DEF Contents
      <4> QED BY <1>1, <4>1
    <3> QED BY <3>1, <3>2
  <2> QED BY <1>1, <2>1, ContentsKept
<1>11. Unmixed' BY <1>1, UnmixedKept
<1> QED BY <1>3, <1>4, <1>6, <1>7, <1>8, <1>9, <1>10, <1>11

\* A thread is done with a request: it inserted a transaction, added a record to one, could
\* not commit one, or found it erased.
LEMMA LeaveStep ==
  ASSUME TransferInv, NEW t \in Threads, NEW ok \in BOOLEAN, frame[t].op # "idle",
         domainIds' = domainIds, fresh' = fresh, late' = late, serial' = serial, second' = second,
         faults' \in 0..MaxFaults, crossed' = crossed, state' = state, mixed' = mixed, Leave(t, ok),
         frame[t].op = "start" =>
           txs' = [y \in DOMAIN txs \union {frame[t].tx} |->
                     IF y \in DOMAIN txs THEN txs[y] ELSE [zone |-> frame[t].zone, data |-> {}]],
         frame[t].op = "feed" =>
           IF frame[t].valid
           THEN txs' = [txs EXCEPT ![frame[t].tx] = [txs[frame[t].tx] EXCEPT !.data = @ \union frame[t].data]]
           ELSE txs' = txs,
         frame[t].op \in {"commit", "erase"} => txs' = txs,
         frame[t].op = "commit" => ~ok
  PROVE  TransferInv'
<1> USE DEF TransferInv
<1> DEFINE x == frame[t].tx
           c == frame[t].for
<1>0. Nobody \notin Clients /\ 0 \notin TxIds BY TransferAssumption
<1>1. /\ frame' \in [Threads -> Frames] /\ frame'[t] = NoFrame
      /\ frame'[t].op = "idle" /\ frame'[t].for = Nobody /\ frame'[t].tx = 0
      /\ \A u \in Threads : u # t => frame'[u] = frame[u]
      /\ c \in Clients \union {Nobody} /\ Reply(c, ok)
  <2>1. /\ frame' \in [Threads -> Frames] /\ frame'[t] = NoFrame
        /\ \A u \in Threads : u # t => frame'[u] = frame[u]
        /\ c \in Clients \union {Nobody} /\ Reply(c, ok)
    BY LeaveWhat
  <2>2. frame'[t].op = "idle" /\ frame'[t].for = Nobody /\ frame'[t].tx = 0 BY <2>1 DEF NoFrame
  <2> QED BY <2>1, <2>2
<1>2. /\ client' \in [Clients -> Transfers]
      /\ \A d \in Clients : Wellformed(client'[d])
      /\ \A d \in Clients : client'[d].tx \in {client[d].tx, 0} /\ (d # c => client'[d] = client[d])
      /\ c \in Clients => client'[c] = Answered(client[c], ok)
  BY <1>1, ReplyWhat
<1>3. x \in TxIds /\ frame[t].zone \in Zones /\ frame[t].data \subseteq Data /\ frame[t] \in Frames
  BY DEF Sent, TypeOK, Frames
<1>4. c \in Clients =>
        /\ client[c] \in Transfers /\ Wellformed(client[c])
        /\ client[c].tx = x /\ client[c].pc = AskedFor(frame[t].op)
  BY DEF TypeOK, Sent, Attended
<1>5. c \in Clients /\ client'[c].pc \in Begun =>
        /\ client'[c].tx = x
        /\ client'[c].pc = "abort" => client[c].pc = "feed"
        /\ client'[c].pc # "abort" =>
             /\ client'[c].zone = client[c].zone /\ client'[c].version = client[c].version
             /\ \/ frame[t].op = "start" /\ client[c].pc = "start" /\ client'[c].pc = "feed" /\ client'[c].fed = 0
                \/ /\ frame[t].op = "feed" /\ client[c].pc = "feed" /\ client'[c].fed = client[c].fed + 1
                   /\ client'[c].pc = IF client[c].fed + 1 = Records THEN "commit" ELSE "feed"
  <2> SUFFICES ASSUME c \in Clients, client'[c].pc \in Begun
               PROVE  /\ client'[c].tx = client[c].tx
                      /\ client'[c].pc = "abort" => client[c].pc = "feed"
                      /\ client'[c].pc # "abort" =>
                           /\ client'[c].zone = client[c].zone /\ client'[c].version = client[c].version
                           /\ \/ client[c].pc = "start" /\ client'[c].pc = "feed" /\ client'[c].fed = 0
                              \/ /\ client[c].pc = "feed" /\ client'[c].fed = client[c].fed + 1
                                 /\ client'[c].pc = IF client[c].fed + 1 = Records THEN "commit" ELSE "feed"
    <3>1. AskedFor(frame[t].op) = "start" => frame[t].op = "start" BY <1>3 DEF AskedFor, Frames
    <3>2. AskedFor(frame[t].op) = "feed" => frame[t].op = "feed" BY <1>3 DEF AskedFor, Frames
    <3> QED BY <1>4, <3>1, <3>2
  <2>1. client'[c].pc \in Busy \/ client'[c].pc = "abort" BY DEF Begun, Busy
  <2>2. client'[c].pc \in Busy => client'[c].pc # "abort" BY DEF Busy
  <2> QED BY <1>2, <1>4, <2>1, <2>2, AnsweredWhat
\* Only a start that was accepted makes a transfer begin.
<1>6. ASSUME NEW d \in Clients, client'[d].pc \in Begun
      PROVE  /\ client'[d].tx = client[d].tx
             /\ client[d].pc \in Begun \/ (d = c /\ frame[t].op = "start")
  BY <1>2, <1>4, <1>5, <1>6 DEF Begun
\* The other transactions stay what they are.
<1>7. \A y \in DOMAIN txs' : y # x => y \in DOMAIN txs /\ txs'[y] = txs[y]
  BY <1>3 DEF Frames
<1>8. TypeOK'
  <2>1. DOMAIN txs' \subseteq TxIds /\ \A y \in DOMAIN txs' : txs'[y] \in [zone : Zones, data : SUBSET Data]
    <3>1. CASE frame[t].op = "start" BY <1>3, <3>1 DEF TypeOK
    <3>2. CASE frame[t].op = "feed" /\ frame[t].valid
      <4>1. txs' = [txs EXCEPT ![x] = [txs[x] EXCEPT !.data = @ \union frame[t].data]] BY <3>2
      <4>2. x \in DOMAIN txs => [txs[x] EXCEPT !.data = @ \union frame[t].data] \in [zone : Zones, data : SUBSET Data]
        BY <1>3 DEF TypeOK
      <4> QED BY <4>1, <4>2 DEF TypeOK
    <3>3. CASE txs' = txs BY <3>3 DEF TypeOK
    <3> QED BY <1>3, <3>1, <3>2, <3>3 DEF Frames
  <2> QED BY <1>1, <1>2, <2>1 DEF TypeOK
<1>9. Sent'
  <2>1. \A u \in Threads : IF frame'[u].op = "idle" THEN frame'[u].for = Nobody /\ frame'[u].tx = 0
                           ELSE frame'[u].zone \in Zones /\ frame'[u].tx \in TxIds
    BY <1>1 DEF Sent
  <2> QED BY <1>2, <2>1 DEF Sent, Wellformed
<1>10. Attended'
  <2>1. ASSUME NEW u \in Threads, NEW d \in Clients, frame'[u].for = d PROVE client'[d] = client[d]
    <3>1. u # t BY <1>0, <1>1, <2>1
    <3>2. frame[u].for = d BY <1>1, <2>1, <3>1
    <3>3. d # c BY <1>0, <3>1, <3>2 DEF Attended
    <3> QED BY <1>2, <3>3
  <2>2. \A u \in Threads : frame'[u].for = Nobody \/ frame'[u] = frame[u] BY <1>1
  <2> QED BY <2>1, <2>2, AttendedKept
<1>11. Beginning'
  <2> SUFFICES ASSUME NEW u \in Threads, frame'[u].op = "start", frame'[u].tx \notin crossed
               PROVE  /\ frame'[u].tx \notin DOMAIN txs'
                      /\ \A w \in Threads : frame'[w].tx = frame'[u].tx => w = u
                      /\ \A r \in late : r.tx = frame'[u].tx => r.pc \notin Begun
                      /\ \A d \in Clients : client'[d].tx = frame'[u].tx => client'[d].pc \notin Begun
    BY DEF Beginning
  <2>1. u # t /\ frame'[u] = frame[u] BY <1>1
  <2>2. /\ frame[u].tx \notin DOMAIN txs
        /\ \A w \in Threads : frame[w].tx = frame[u].tx => w = u
        /\ \A r \in late : r.tx = frame[u].tx => r.pc \notin Begun
        /\ \A d \in Clients : client[d].tx = frame[u].tx => client[d].pc \notin Begun
    BY <2>1 DEF Beginning
  <2>3. frame[u].tx # x BY <2>1, <2>2
  <2>4. frame[u].tx \notin DOMAIN txs' BY <1>7, <2>2, <2>3
  <2>5. \A w \in Threads : frame'[w].tx = frame[u].tx => w = u BY <1>0, <1>1, <2>1, <2>2 DEF Sent
  <2>6. \A d \in Clients : client'[d].tx = frame[u].tx => client'[d].pc \notin Begun BY <1>4, <1>6, <2>2, <2>3
  <2> QED BY <2>1, <2>2, <2>4, <2>5, <2>6
<1>12. Owned'
  <2> SUFFICES ASSUME NEW d \in Clients, client'[d].pc \in {"feed", "commit"}, client'[d].tx \notin crossed
               PROVE  /\ \A e \in Clients : client'[e].tx = client'[d].tx => e = d \/ client'[e].pc \notin Begun
                      /\ \A r \in late : r.tx = client'[d].tx => r.pc \notin Begun
                      /\ \A u \in Threads : frame'[u].tx = client'[d].tx => frame'[u].for = d /\ frame'[u].valid
    BY DEF Owned
  <2>1. client'[d].pc \in Begun /\ client'[d].tx \in TxIds BY <1>2 DEF Begun, Wellformed, Busy
  <2>2. client'[d].tx = client[d].tx BY <1>6, <2>1
  <2>3. CASE d = c /\ frame[t].op = "start"
    <3>1. client'[d].tx = x BY <1>4, <2>2, <2>3
    <3>2. /\ \A w \in Threads : frame[w].tx = x => w = t
          /\ \A r \in late : r.tx = x => r.pc \notin Begun
          /\ \A e \in Clients : client[e].tx = x => client[e].pc \notin Begun
      BY <2>3, <3>1 DEF Beginning
    <3>3. \A e \in Clients : client'[e].tx = x => e = d \/ client'[e].pc \notin Begun BY <1>6, <2>3, <3>2
    <3>4. \A u \in Threads : frame'[u].tx # x BY <1>0, <1>1, <1>3, <3>2
    <3> QED BY <3>1, <3>2, <3>3, <3>4
  <2>4. CASE ~(d = c /\ frame[t].op = "start")
    <3>1. client[d].pc \in {"feed", "commit"} /\ client[d].tx \notin crossed
      <4>1. CASE d = c BY <1>5, <2>1, <2>2, <2>4, <4>1
      <4>2. CASE d # c BY <1>2, <4>2
      <4> QED BY <4>1, <4>2
    <3>2. /\ \A e \in Clients : client[e].tx = client[d].tx => e = d \/ client[e].pc \notin Begun
          /\ \A r \in late : r.tx = client[d].tx => r.pc \notin Begun
          /\ \A u \in Threads : frame[u].tx = client[d].tx => frame[u].for = d /\ frame[u].valid
      BY <3>1 DEF Owned
    <3>3. client[d].tx = x => c = d BY <3>2
    <3>4. \A e \in Clients : client'[e].tx = client[d].tx => e = d \/ client'[e].pc \notin Begun
      BY <1>4, <1>6, <2>4, <3>2, <3>3
    <3>5. \A u \in Threads : frame'[u].tx = client[d].tx => frame'[u].for = d /\ frame'[u].valid
      BY <1>0, <1>1, <2>1, <2>2, <3>2
    <3> QED BY <2>2, <3>2, <3>4, <3>5
  <2> QED BY <2>3, <2>4
<1>13. Sealed'
  <2>1. ASSUME NEW r \in late', r.pc = "commit", r.tx \notin crossed, r.tx \in DOMAIN txs'
        PROVE  r.tx \in DOMAIN txs /\ txs'[r.tx] = txs[r.tx]
    <3>1. CASE r.tx # x BY <1>7, <2>1, <3>1
    <3>2. CASE r.tx = x /\ frame[t].op = "start" BY <2>1, <3>2 DEF Beginning, Begun
    <3>3. CASE r.tx = x /\ frame[t].op = "feed" BY <2>1, <3>3 DEF Sealed
    <3>4. CASE frame[t].op \in {"commit", "erase"} BY <2>1, <3>4
    <3> QED BY <1>3, <3>1, <3>2, <3>3, <3>4 DEF Frames
  <2>2. \A u \in Threads : frame'[u].op = "feed" => frame[u].op = "feed" /\ frame[u].tx = frame'[u].tx BY <1>1
  <2> QED BY <2>1, <2>2, SealedKept
<1>14. Contents'
  <2>1. ASSUME NEW d \in Clients, client'[d].tx \notin crossed PROVE Holds(client'[d], txs')
    <3>1. CASE client'[d].pc \notin {"feed", "commit"} BY <3>1, HoldsIdle
    <3>2. CASE client'[d].pc \in {"feed", "commit"} /\ d # c
      <4>1. client'[d] = client[d] /\ Holds(client[d], txs) BY <1>2, <2>1, <3>2 DEF Contents
      <4>2. client[d].tx # x BY <2>1, <3>2, <4>1 DEF Owned
      <4>3. Holds(client[d], txs') BY <1>7, <4>1, <4>2, HoldsKept
      <4> QED BY <4>1, <4>3
    <3>3. CASE client'[d].pc \in {"feed", "commit"} /\ d = c /\ frame[t].op = "start"
      <4>1. client'[c].pc = "feed" /\ client'[c].tx = x /\ client'[c].zone = client[c].zone /\ client'[c].fed = 0
        BY <1>5, <3>3 DEF Begun
      <4>2. x \notin DOMAIN txs /\ frame[t].zone = client[c].zone BY <2>1, <3>3, <4>1 DEF Beginning, Attended
      <4>3. txs'[x] = [zone |-> client[c].zone, data |-> {}] BY <3>3, <4>2
      <4>4. Fed(client'[c].zone, client'[c].version, 0) = {}
        <5>1. 0 \in 0..Records /\ 0 < Records BY TransferAssumption
        <5> QED BY <5>1, FedMore
      <4> QED BY <3>3, <4>1, <4>3, <4>4 DEF Holds
    <3>4. CASE client'[d].pc \in {"feed", "commit"} /\ d = c /\ frame[t].op = "feed"
      <4> DEFINE z == client[c].zone
                 v == client[c].version
                 k == client[c].fed
      <4>1. /\ client'[c].tx = x /\ client'[c].zone = z /\ client'[c].version = v /\ client'[c].fed = k + 1
            /\ client'[c].pc = IF k + 1 = Records THEN "commit" ELSE "feed"
            /\ client[c].pc = "feed" /\ client[c].tx = x
        BY <1>4, <1>5, <3>4 DEF Begun
      <4>2. frame[t].valid /\ frame[t].data = {<<z, v, k + 1>>} BY <2>1, <3>4, <4>1 DEF Attended, Owned
      <4>3. x \in DOMAIN txs => txs[x] = [zone |-> z, data |-> Fed(z, v, k)]
        <5>1. Holds(client[c], txs) BY <2>1, <3>4, <4>1 DEF Contents
        <5>2. client[c].tx \in DOMAIN txs =>
                txs[client[c].tx] = [zone |-> client[c].zone, data |-> Fed(client[c].zone, client[c].version, client[c].fed)]
          BY <4>1, <5>1 DEF Holds
        <5> QED BY <4>1, <5>2
      <4>4. k \in 0..Records /\ k < Records BY <1>4, <3>4, <4>1 DEF Transfers, Wellformed
      <4>5. Fed(z, v, k) \union {<<z, v, k + 1>>} = Fed(z, v, k + 1) /\ Fed(z, v, Records) = Full(z, v)
        BY <4>4, FedMore
      <4>6. txs' = [txs EXCEPT ![x] = [txs[x] EXCEPT !.data = @ \union frame[t].data]] BY <3>4, <4>2
      <4>7. x \in DOMAIN txs' => x \in DOMAIN txs BY <4>6
      <4> HIDE DEF x, z, v, k
      <4>8. x \in DOMAIN txs => txs'[x] = [zone |-> z, data |-> Fed(z, v, k + 1)]
        <5> SUFFICES ASSUME x \in DOMAIN txs PROVE txs'[x] = [zone |-> z, data |-> Fed(z, v, k + 1)] OBVIOUS
        <5> DEFINE old == Fed(z, v, k)
                   all == Fed(z, v, k + 1)
                   new == {<<z, v, k + 1>>}
        <5>1. txs'[x] = [txs[x] EXCEPT !.data = @ \union frame[t].data] BY <4>6
        <5>2. txs[x] = [zone |-> z, data |-> old] /\ frame[t].data = new /\ old \union new = all BY <4>2, <4>3, <4>5
        <5> HIDE DEF old, all, new
        <5>3. txs[x].data = old BY <5>2
        <5>4. txs'[x] = [txs[x] EXCEPT !.data = all]
          <6>1. txs[x].data \union frame[t].data = all BY <5>2, <5>3
          <6> QED BY <5>1, <6>1
        <5>5. txs'[x] = [zone |-> z, data |-> all]
          <6> DEFINE m == txs[x]
          <6>1. m = [zone |-> z, data |-> old] /\ txs'[x] = [m EXCEPT !.data = all] BY <5>2, <5>4
          <6> HIDE DEF m
          <6> QED BY <6>1
        <5> QED BY <5>5 DEF all
      <4> QED BY <3>4, <4>1, <4>5, <4>7, <4>8 DEF Holds
    <3>5. client'[c].pc \in {"feed", "commit"} /\ c \in Clients => frame[t].op \in {"start", "feed"}
      BY <1>5 DEF Begun
    <3> QED BY <3>1, <3>2, <3>3, <3>4, <3>5
  <2>2. \A u \in Threads : frame'[u].op = "commit" =>
           /\ frame[u].op = "commit" /\ frame'[u].tx = frame[u].tx
           /\ frame'[u].zone = frame[u].zone /\ frame'[u].data = frame[u].data
    BY <1>1
  <2> QED BY <2>1, <2>2, ContentsKept
<1>15. Unmixed' BY UnmixedKept
<1> QED BY <1>8, <1>9, <1>10, <1>11, <1>12, <1>13, <1>14, <1>15

\* Data that is whole, or of a crossed name, is stored.
LEMMA ApplyStep ==
  ASSUME TransferInv, NEW t \in Threads, domainIds' = domainIds, fresh' = fresh, late' = late, serial' = serial,
         second' = second, faults' \in 0..MaxFaults, crossed' = crossed, frame[t].op = "commit", txs' = txs,
         client' = client,
         state' = [state EXCEPT ![frame[t].zone] = frame[t].data],
         mixed' = IF frame[t].tx \in crossed THEN mixed \union {frame[t].zone} ELSE mixed \ {frame[t].zone},
         frame' = [frame EXCEPT ![t].op = "erase"]
  PROVE  TransferInv'
<1> USE DEF TransferInv
<1>1. frame[t] \in Frames /\ frame[t].zone \in Zones /\ frame[t].tx \in TxIds /\ frame[t].data \subseteq Data
  BY DEF TypeOK, Sent, Frames
<1>2. /\ frame' \in [Threads -> Frames] /\ frame'[t].op = "erase"
      /\ \A u \in Threads :
           /\ frame'[u].for = frame[u].for /\ frame'[u].zone = frame[u].zone /\ frame'[u].tx = frame[u].tx
           /\ frame'[u].data = frame[u].data /\ frame'[u].valid = frame[u].valid
           /\ u # t => frame'[u] = frame[u]
  BY <1>1 DEF TypeOK, Frames
<1>3. TypeOK' BY <1>1, <1>2 DEF TypeOK
<1>4. Sent'
  <2>1. \A u \in Threads : IF frame'[u].op = "idle" THEN frame'[u].for = Nobody /\ frame'[u].tx = 0
                           ELSE frame'[u].zone \in Zones /\ frame'[u].tx \in TxIds
    BY <1>1, <1>2 DEF Sent
  <2> QED BY <2>1 DEF Sent, Wellformed
<1>5. Attended'
  <2>1. \A u \in Threads : AskedFor(frame'[u].op) = AskedFor(frame[u].op) BY <1>2 DEF AskedFor
  <2> QED BY <1>2, <2>1, AttendedKept
<1>6. Beginning'
  <2>1. \A u \in Threads : frame'[u].tx = frame[u].tx /\ frame'[u].op \in {frame[u].op, "erase"} BY <1>2
  <2> QED BY <2>1, BeginningKept
<1>7. Owned'
  <2>1. \A d \in Clients : client'[d].pc \in {"feed", "commit"} =>
          /\ client[d].pc \in {"feed", "commit"} /\ client'[d].tx \in TxIds
          /\ client'[d].tx \in crossed \/ client'[d].tx # 0
    BY TransferAssumption DEF Sent, Wellformed, Busy
  <2>2. \A d \in Clients : client'[d].pc \in Begun => client[d].pc \in Begun /\ client'[d].tx = client[d].tx
    OBVIOUS
  <2>3. \A u \in Threads : \/ frame'[u].tx = 0
                           \/ /\ frame'[u].tx = frame[u].tx /\ frame'[u].for = frame[u].for
                              /\ frame'[u].valid = frame[u].valid \/ frame[u].tx = 0
    BY <1>2
  <2> QED BY <2>1, <2>2, <2>3, OwnedKept
<1>8. Sealed'
  <2>1. \A u \in Threads : frame'[u].op = "feed" => frame[u].op = "feed" /\ frame[u].tx = frame'[u].tx BY <1>2
  <2> QED BY <2>1, SealedKept
<1>9. Contents'
  <2>1. \A c \in Clients : client'[c].tx \notin crossed => Holds(client'[c], txs') BY DEF Contents
  <2>2. \A u \in Threads : frame'[u].op = "commit" =>
           /\ frame[u].op = "commit" /\ frame'[u].tx = frame[u].tx
           /\ frame'[u].zone = frame[u].zone /\ frame'[u].data = frame[u].data
    BY <1>2
  <2> QED BY <2>1, <2>2, ContentsKept
<1>10. Unmixed'
  <2>1. frame[t].tx \notin crossed => Whole(frame[t].zone, frame[t].data) BY DEF Contents
  <2>2. ASSUME NEW z \in Zones PROVE state'[z] = {} \/ z \in mixed' \/ Whole(z, state'[z])
    <3>1. CASE z = frame[t].zone BY <2>1, <3>1 DEF TypeOK
    <3>2. CASE z # frame[t].zone BY <3>2 DEF Unmixed, TypeOK
    <3> QED BY <3>1, <3>2
  <2> QED BY <2>2 DEF Unmixed, Whole, Full
<1> QED BY <1>3, <1>4, <1>5, <1>6, <1>7, <1>8, <1>9, <1>10

\* A committed transaction is erased.
LEMMA EraseStep ==
  ASSUME TransferInv, NEW t \in Threads, domainIds' = domainIds, fresh' = fresh, late' = late, serial' = serial,
         second' = second, faults' \in 0..MaxFaults, crossed' = crossed, state' = state, mixed' = mixed,
         frame[t].op = "erase", Erase(t, frame[t].tx, NoFrame), Reply(frame[t].for, TRUE)
  PROVE  TransferInv'
<1> USE DEF TransferInv
<1> DEFINE x == frame[t].tx
           c == frame[t].for
<1>0. Nobody \notin Clients /\ 0 \notin TxIds BY TransferAssumption
<1>1. /\ frame' \in [Threads -> Frames] /\ frame'[t] = NoFrame
      /\ \A u \in Threads : u # t =>
          /\ frame'[u].op = frame[u].op /\ frame'[u].for = frame[u].for /\ frame'[u].zone = frame[u].zone
          /\ frame'[u].tx = frame[u].tx /\ frame'[u].data = frame[u].data
          /\ frame[u].tx # x => frame'[u] = frame[u]
      /\ DOMAIN txs' = DOMAIN txs \ {x}
      /\ \A y \in DOMAIN txs' : txs'[y] = txs[y]
  BY EraseWhat
<1>2. c \in Clients \union {Nobody} BY DEF TypeOK, Frames
<1>3. /\ client' \in [Clients -> Transfers]
      /\ \A d \in Clients : Wellformed(client'[d])
      /\ \A d \in Clients : client'[d].tx \in {client[d].tx, 0} /\ (d # c => client'[d] = client[d])
      /\ c \in Clients => client'[c] = Answered(client[c], TRUE)
  BY <1>2, ReplyWhat
<1>4. c \in Clients => client'[c].pc \notin Begun
  <2> SUFFICES ASSUME c \in Clients PROVE Answered(client[c], TRUE).pc \notin Begun BY <1>3
  <2>1. client[c].pc = "commit" BY DEF Attended, AskedFor
  <2>2. client[c] \in Transfers /\ Wellformed(client[c]) BY DEF TypeOK, Sent
  <2> QED BY <2>1, <2>2, AnsweredWhat DEF Begun, Busy
<1>5. TypeOK' BY <1>1, <1>3 DEF TypeOK
<1>6. Sent'
  <2>1. \A u \in Threads : IF frame'[u].op = "idle" THEN frame'[u].for = Nobody /\ frame'[u].tx = 0
                           ELSE frame'[u].zone \in Zones /\ frame'[u].tx \in TxIds
    BY <1>1 DEF Sent, NoFrame
  <2> QED BY <1>3, <2>1 DEF Sent, Wellformed
<1>7. ASSUME NEW d \in Clients, client'[d].pc \in Begun PROVE d # c /\ client'[d] = client[d]
  BY <1>3, <1>4, <1>7
<1>8. frame'[t].op = "idle" /\ frame'[t].for = Nobody /\ frame'[t].tx = 0 BY <1>1 DEF NoFrame
<1>9. Attended'
  <2>1. ASSUME NEW u \in Threads, NEW d \in Clients, frame'[u].for = d PROVE client'[d] = client[d]
    <3>1. u # t /\ frame[u].for = d BY <1>0, <1>1, <1>8, <2>1
    <3>2. d # c BY <1>0, <3>1 DEF Attended
    <3> QED BY <1>3, <3>2
  <2>2. ASSUME NEW u \in Threads
        PROVE  \/ frame'[u].for = Nobody
               \/ /\ frame'[u].for = frame[u].for /\ frame'[u].tx = frame[u].tx /\ frame'[u].op = frame[u].op
                  /\ frame'[u].zone = frame[u].zone /\ frame'[u].data = frame[u].data
    BY <1>1, <1>8
  <2> QED BY <2>1, <2>2, AttendedKept
<1>10. Beginning'
  <2>1. \A u \in Threads : \/ frame'[u].tx = 0 /\ frame'[u].op = "idle"
                           \/ frame'[u].tx = frame[u].tx /\ frame'[u].op = frame[u].op
    BY <1>1, <1>8
  <2> QED BY <1>1, <1>7, <2>1, BeginningKept
<1>11. Owned'
  <2>1. ASSUME NEW d \in Clients, client'[d].pc \in {"feed", "commit"}
        PROVE  /\ client'[d] = client[d] /\ client'[d].tx \in TxIds
               /\ client'[d].tx \in crossed \/ client'[d].tx # x
    <3>1. d # c /\ client'[d] = client[d] BY <1>7, <2>1 DEF Begun
    <3>2. client[d].tx \in TxIds BY <2>1, <3>1 DEF Sent, Wellformed, Busy
    <3>3. client[d].tx \in crossed \/ client[d].tx # x BY <2>1, <3>1 DEF Owned
    <3> QED BY <3>1, <3>2, <3>3
  <2>2. \A u \in Threads : \/ frame'[u].tx = 0
                           \/ /\ frame'[u].tx = frame[u].tx /\ frame'[u].for = frame[u].for
                              /\ frame'[u].valid = frame[u].valid \/ frame[u].tx = x
    BY <1>1, <1>8
  <2> HIDE DEF x
  <2> QED BY <1>7, <2>1, <2>2, OwnedKept
<1>12. Sealed'
  <2>1. \A u \in Threads : frame'[u].op = "feed" => frame[u].op = "feed" /\ frame[u].tx = frame'[u].tx BY <1>1, <1>8
  <2> QED BY <1>1, <2>1, SealedKept
<1>13. Contents'
  <2>1. ASSUME NEW d \in Clients, client'[d].tx \notin crossed PROVE Holds(client'[d], txs')
    <3>1. CASE client'[d].pc \notin Begun BY <3>1, HoldsIdle DEF Begun
    <3>2. CASE client'[d].pc \in Begun
      <4>1. client'[d] = client[d] /\ Holds(client[d], txs) BY <1>7, <2>1, <3>2 DEF Contents
      <4>2. Holds(client[d], txs') BY <1>1, <4>1, HoldsKept
      <4> QED BY <4>1, <4>2
    <3> QED BY <3>1, <3>2
  <2>2. \A u \in Threads : frame'[u].op = "commit" =>
           /\ frame[u].op = "commit" /\ frame'[u].tx = frame[u].tx
           /\ frame'[u].zone = frame[u].zone /\ frame'[u].data = frame[u].data
    BY <1>1, <1>8
  <2> QED BY <2>1, <2>2, ContentsKept
<1>14. Unmixed' BY UnmixedKept
<1> QED BY <1>5, <1>6, <1>9, <1>10, <1>11, <1>12, <1>13, <1>14

LEMMA ContinueStep ==
  ASSUME TransferInv, NEW t \in Threads, Continue(t)
  PROVE  TransferInv'
<1> USE DEF TransferInv
<1>1. CASE Ends /\ serial' = serial /\ faults' = faults
  <2>1. faults' \in 0..MaxFaults BY <1>1 DEF TypeOK
  <2> QED BY <1>1, <2>1, EndsStep
<1>2. CASE ~(Ends /\ serial' = serial /\ faults' = faults)
  <2>1. /\ domainIds' = domainIds /\ fresh' = fresh /\ late' = late /\ serial' = serial /\ second' = second
        /\ faults' \in 0..MaxFaults /\ crossed' = crossed
    BY <1>2, ContinueWhat
  <2>2. CASE /\ state' = state /\ mixed' = mixed /\ frame[t].op # "idle"
             /\ \E ok \in BOOLEAN :
                  /\ Leave(t, ok)
                  /\ frame[t].op = "start" =>
                       txs' = [y \in DOMAIN txs \union {frame[t].tx} |->
                                 IF y \in DOMAIN txs THEN txs[y] ELSE [zone |-> frame[t].zone, data |-> {}]]
                  /\ frame[t].op = "feed" =>
                       IF frame[t].valid
                       THEN txs' = [txs EXCEPT ![frame[t].tx] = [txs[frame[t].tx] EXCEPT !.data = @ \union frame[t].data]]
                       ELSE txs' = txs
                  /\ frame[t].op \in {"commit", "erase"} => txs' = txs
                  /\ frame[t].op = "commit" => ~ok
                  /\ frame[t].op = "feed" => ok
    BY <2>1, <2>2, LeaveStep
  <2>3. CASE /\ state' = state /\ mixed' = mixed /\ frame[t].op = "erase"
             /\ Erase(t, frame[t].tx, NoFrame) /\ Reply(frame[t].for, TRUE)
    BY <2>1, <2>3, EraseStep
  <2>4. CASE /\ frame[t].op = "commit" /\ txs' = txs /\ client' = client
             /\ state' = [state EXCEPT ![frame[t].zone] = frame[t].data]
             /\ mixed' = IF frame[t].tx \in crossed THEN mixed \union {frame[t].zone}
                                                    ELSE mixed \ {frame[t].zone}
             /\ frame' = [frame EXCEPT ![t].op = "erase"]
    BY <2>1, <2>4, ApplyStep
  <2> QED BY <1>2, <2>2, <2>3, <2>4, ContinueWhat
<1> QED BY <1>1, <1>2

\* Versions, time and polls that list nothing change none of it.
LEMMA OtherStep ==
  ASSUME TransferInv, domainIds' \in [Zones -> Nat], fresh' \subseteq Nat, serial' \in [Zones -> 1..MaxVersion],
         second' \in {0, second}, UNCHANGED <<txs, state, frame, late, client, faults, crossed, mixed>>
  PROVE  TransferInv'
<1>1. TypeOK' BY DEF TransferInv, TypeOK
<1>2. Sent' BY DEF TransferInv, Sent, Wellformed
<1>3. Attended' BY DEF TransferInv, Attended
<1>4. Beginning' BY DEF TransferInv, Beginning
<1>5. Owned' BY DEF TransferInv, Owned
<1>6. Sealed' BY DEF TransferInv, Sealed, Whole, Full
<1>7. Contents' BY DEF TransferInv, Contents, Holds, Whole, Full, Fed
<1>8. Unmixed' BY UnmixedKept DEF TransferInv
<1> QED BY <1>1, <1>2, <1>3, <1>4, <1>5, <1>6, <1>7, <1>8 DEF TransferInv

LEMMA NextHolds == TransferInv /\ [Next]_vars => TransferInv'
<1> SUFFICES ASSUME TransferInv, [Next]_vars PROVE TransferInv' OBVIOUS
<1> USE DEF TransferInv
<1>0. domainIds \in [Zones -> Nat] /\ fresh \subseteq Nat /\ serial \in [Zones -> 1..MaxVersion] BY DEF TypeOK
<1>1. ASSUME NEW t \in Threads, NEW c \in Clients, Handle(t, c, client[c]) PROVE TransferInv' BY <1>1, HandleStep
<1>2. ASSUME NEW t \in Threads, NEW r \in late, Handle(t, Nobody, r) PROVE TransferInv' BY <1>2, HandleStep
<1>3. ASSUME NEW t \in Threads, Continue(t) PROVE TransferInv' BY <1>3, ContinueStep
<1>4. ASSUME NEW c \in Clients, TimeOut(c) PROVE TransferInv' BY <1>4, TimeOutStep
<1>5. ASSUME NEW c \in Clients, NEW z \in Zones, Poll(c, z) PROVE TransferInv' BY <1>5, PollStep
<1>6. ASSUME NEW z \in Zones, Update(z) PROVE TransferInv'
  <2>1. serial[z] + 1 \in 1..MaxVersion BY <1>0, <1>6, TransferAssumption DEF Update
  <2>2. serial' \in [Zones -> 1..MaxVersion] BY <1>0, <1>6, <2>1 DEF Update
  <2> QED BY <1>0, <1>6, <2>2, OtherStep DEF Update, history
<1>7. ASSUME NEW z \in Zones, Elapse(domainIds[z]) PROVE TransferInv'
  <2>1. fresh' \subseteq Nat BY <1>0, <1>7 DEF Elapse
  <2> QED BY <1>0, <1>7, <2>1, OtherStep DEF Elapse, history
<1>8. CASE PollNothing
  <2>1. Cardinality(Zones) \in Nat BY TransferAssumption, FS_CardinalityType
  <2>2. Assigned \subseteq [Zones -> Nat] BY <2>1 DEF Assigned
  <2> QED BY <1>0, <1>8, <2>2, OtherStep DEF PollNothing, history
<1>9. CASE Tick BY <1>0, <1>9, OtherStep DEF Tick, history
<1>10. CASE Restart
  <2>1. faults' \in 0..MaxFaults BY <1>10, TransferAssumption DEF Restart, TypeOK
  <2> QED BY <1>10, <2>1, EndsStep DEF Restart
<1>11. CASE UNCHANGED vars BY <1>0, <1>11, OtherStep DEF vars
<1> QED BY <1>1, <1>2, <1>3, <1>4, <1>5, <1>6, <1>7, <1>8, <1>9, <1>10, <1>11 DEF Next

-----------------------------------------------------------------------------
(* No name is crossed when no two transfers start in the same second *)

\* An answer leaves a client its name or none, and it does not start again.
LEMMA DistinctKept ==
  ASSUME Distinct, second' = 0, crossed' = {}, mixed' = {}, late' \subseteq late,
         \A d \in Clients : client'[d].tx \in {client[d].tx, 0},
         \A d \in Clients : client'[d].pc = "start" => client'[d] = client[d] /\ client[d].tx # 0,
         \A r \in late' : r.pc = "start" => r.tx # 0,
         \A u \in Threads : \/ frame'[u].tx = 0
                            \/ frame'[u].tx = frame[u].tx /\ frame'[u].for = frame[u].for
  PROVE  Distinct'
<1>1. ASSUME NEW c \in Clients, NEW d \in Clients, client'[c].tx = client'[d].tx PROVE c = d \/ client'[c].tx = 0
  BY <1>1 DEF Distinct
<1>2. ASSUME NEW c \in Clients, client'[c].pc = "start"
      PROVE  /\ \A r \in late' : r.tx # client'[c].tx
             /\ \A t \in Threads : frame'[t].tx = client'[c].tx => frame'[t].for = c
  BY <1>2 DEF Distinct
<1>3. ASSUME NEW r \in late', r.pc = "start"
      PROVE  /\ \A s \in late' : s.tx = r.tx => s = r
             /\ \A t \in Threads : frame'[t].tx # r.tx
             /\ \A c \in Clients : client'[c].tx # r.tx
  BY <1>3 DEF Distinct
<1> QED BY <1>1, <1>2, <1>3 DEF Distinct

\* A reply is an answer.
LEMMA DistinctReply ==
  ASSUME TypeOK, Sent, Distinct, NEW c \in Clients \union {Nobody}, NEW ok \in BOOLEAN, Reply(c, ok),
         late' \subseteq late, second' = 0, crossed' = {}, mixed' = {},
         \A u \in Threads : \/ frame'[u].tx = 0
                            \/ frame'[u].tx = frame[u].tx /\ frame'[u].for = frame[u].for
  PROVE  Distinct'
<1>0. 0 \notin TxIds BY TransferAssumption
<1>1. /\ \A d \in Clients : client'[d].tx \in {client[d].tx, 0} /\ (d # c => client'[d] = client[d])
      /\ c \in Clients => client'[c] = Answered(client[c], ok)
  BY ReplyWhat
<1>2. ASSUME NEW d \in Clients, client'[d].pc = "start" PROVE client'[d] = client[d] /\ client[d].tx # 0
  <2>1. d # c
    <3> SUFFICES ASSUME d = c PROVE FALSE OBVIOUS
    <3>1. client[c] \in Transfers /\ Wellformed(client[c]) BY DEF TypeOK, Sent
    <3> QED BY <1>1, <1>2, <3>1, AnsweredWhat DEF Busy
  <2>2. client[d].pc = "start" => client[d].tx \in TxIds BY DEF Sent, Wellformed, Busy
  <2> QED BY <1>0, <1>1, <1>2, <2>1, <2>2
<1>3. \A r \in late' : r.pc = "start" => r.tx # 0 BY <1>0 DEF Sent, Wellformed, Busy
<1> QED BY <1>1, <1>2, <1>3, DistinctKept

LEMMA DistinctHandle ==
  ASSUME TypeOK, Sent, Distinct, NEW t \in Threads, NEW c, NEW r, Handle(t, c, r)
  PROVE  Distinct'
<1>0. 0 \notin TxIds /\ Nobody \notin Clients BY TransferAssumption
<1>1. CASE startTransaction(t, c, r) \/ feedRecord(t, c, r) \/ commitTransaction(t, c, r)
  <2>1. /\ r.pc \in Busy /\ Takes(t, c, r, r.pc)
        /\ r.pc # "start" => crossed' = crossed
    BY <1>1, RequestWhat
  <2>2. r.pc # "idle" BY <2>1 DEF Busy
  <2>3. /\ c \in Clients \union {Nobody} /\ Wellformed(r)
        /\ c \in Clients => r = client[c] /\ (\A u \in Threads : frame[u].for # c) /\ late' = late
        /\ c = Nobody => r \in late /\ late' = late \ {r}
        /\ late' \subseteq late /\ second' = second /\ mixed' = mixed
    BY <2>1, <2>2, TakesWhat
  <2>4. r.tx \in TxIds BY <2>1, <2>3 DEF Wellformed
  <2>5. CASE Reply(c, FALSE) /\ frame' = frame /\ crossed' = crossed
    <3>1. second' = 0 /\ mixed' = {} /\ crossed' = {} BY <2>3, <2>5 DEF Distinct
    <3> QED BY <2>3, <2>5, <3>1, DistinctReply
  <2>6. CASE ~(Reply(c, FALSE) /\ frame' = frame /\ crossed' = crossed)
    <3>0. /\ client' = client /\ frame' \in [Threads -> Frames]
          /\ \A u \in Threads : u # t => frame'[u] = frame[u]
          /\ frame'[t].op = r.pc /\ frame'[t].for = c /\ frame'[t].tx = r.tx /\ frame'[t].valid
          /\ frame'[t].zone \in Zones
          /\ r.pc = "start" =>
               /\ r.tx \notin DOMAIN txs /\ frame'[t].zone = r.zone
               /\ crossed' = IF Crossing(r.tx) THEN crossed \union {r.tx} ELSE crossed \ {r.tx}
          /\ r.pc = "feed" => frame'[t].data = {<<r.zone, r.version, r.fed + 1>>}
          /\ r.pc = "commit" =>
               r.tx \in DOMAIN txs /\ frame'[t].zone = txs[r.tx].zone /\ frame'[t].data = txs[r.tx].data
      BY <1>1, <2>6, RequestWhat
\* The name of a start is that of one request, and nobody has begun with it.
    <3>1. r.pc = "start" => ~Crossing(r.tx)
      <4> SUFFICES ASSUME r.pc = "start" PROVE ~Crossing(r.tx) OBVIOUS
      <4>1. \A s \in late : s.tx = r.tx => s.pc = "start" BY <2>3 DEF Distinct
      <4>2. \A d \in Clients : client[d].tx = r.tx => client[d].pc = "start" BY <1>0, <2>3, <2>4 DEF Distinct
      <4>3. \A u \in Threads : frame[u].tx # r.tx BY <2>3 DEF Distinct
      <4> QED BY <4>1, <4>2, <4>3 DEF Crossing
    <3>2. crossed' = {} /\ second' = 0 /\ mixed' = {} BY <2>1, <2>3, <3>0, <3>1 DEF Distinct
    <3>3. ASSUME NEW d \in Clients, client'[d].pc = "start"
          PROVE  /\ \A s \in late' : s.tx # client'[d].tx
                 /\ \A u \in Threads : frame'[u].tx = client'[d].tx => frame'[u].for = d
      <4>1. /\ \A s \in late : s.tx # client[d].tx
            /\ \A u \in Threads : frame[u].tx = client[d].tx => frame[u].for = d
        BY <3>0, <3>3 DEF Distinct
      <4>2. r.tx = client[d].tx => c = d BY <1>0, <2>3, <2>4, <4>1 DEF Distinct
      <4> QED BY <2>3, <3>0, <4>1, <4>2
    <3>4. ASSUME NEW q \in late', q.pc = "start"
          PROVE  /\ \A s \in late' : s.tx = q.tx => s = q
                 /\ \A u \in Threads : frame'[u].tx # q.tx
                 /\ \A d \in Clients : client'[d].tx # q.tx
      <4>1. /\ \A s \in late : s.tx = q.tx => s = q
            /\ \A u \in Threads : frame[u].tx # q.tx
            /\ \A d \in Clients : client[d].tx # q.tx
        BY <2>3, <3>4 DEF Distinct
      <4>2. r.tx # q.tx BY <2>3, <3>4, <4>1
      <4> QED BY <2>3, <3>0, <4>1, <4>2
    <3> QED BY <3>0, <3>2, <3>3, <3>4 DEF Distinct
  <2> QED BY <2>5, <2>6
<1>2. CASE abortTransaction(t, c, r) \/ setFresh(t, c, r)
  <2>1. /\ Takes(t, c, r, r.pc) /\ r.pc # "idle" /\ Reply(c, TRUE) /\ crossed' = crossed
        /\ Erase(t, r.tx, NoFrame) \/ frame' = frame
    BY <1>2, NoticeWhat
  <2>2. c \in Clients \union {Nobody} /\ late' \subseteq late /\ second' = second /\ mixed' = mixed BY <2>1, TakesWhat
  <2>3. \A u \in Threads : frame'[u].tx = 0 \/ (frame'[u].tx = frame[u].tx /\ frame'[u].for = frame[u].for)
    <3>1. Erase(t, r.tx, NoFrame) =>
            /\ frame'[t] = NoFrame
            /\ \A u \in Threads : u # t => frame'[u].tx = frame[u].tx /\ frame'[u].for = frame[u].for
      BY EraseWhat
    <3> QED BY <2>1, <3>1 DEF NoFrame
  <2>4. second' = 0 /\ mixed' = {} /\ crossed' = {} BY <2>1, <2>2 DEF Distinct
  <2> QED BY <2>1, <2>2, <2>3, <2>4, DistinctReply
<1> QED BY <1>1, <1>2 DEF Handle

LEMMA DistinctEnds ==
  ASSUME TypeOK, Sent, Distinct, Ends
  PROVE  Distinct'
<1>0. 0 \notin TxIds BY TransferAssumption
<1>1. /\ second' = second /\ late' = {} /\ mixed' = {} /\ crossed' = crossed
      /\ frame' = [u \in Threads |-> NoFrame]
      /\ \A c \in Clients :
           /\ client'[c].tx \in {client[c].tx, 0}
           /\ client'[c] = client[c] \/ client'[c].pc \notin Busy
  BY EndsWhat
<1>2. \A u \in Threads : frame'[u].tx = 0 BY <1>1 DEF NoFrame
<1>3. ASSUME NEW d \in Clients, client'[d].pc = "start" PROVE client'[d] = client[d] /\ client[d].tx # 0
  <2>1. client'[d] = client[d] BY <1>1, <1>3 DEF Busy
  <2> QED BY <1>0, <1>3, <2>1 DEF Sent, Wellformed, Busy
<1>4. second' = 0 /\ crossed' = {} BY <1>1 DEF Distinct
<1> QED BY <1>1, <1>2, <1>3, <1>4, DistinctKept

LEMMA DistinctContinue ==
  ASSUME TypeOK, Sent, Distinct, NEW t \in Threads, Continue(t)
  PROVE  Distinct'
<1>1. CASE Ends BY <1>1, DistinctEnds
<1>2. CASE ~Ends
  <2>1. late' = late /\ second' = second /\ crossed' = crossed BY <1>2, ContinueWhat
  <2>2. second' = 0 /\ crossed' = {} /\ crossed = {} /\ mixed = {} /\ late' \subseteq late BY <2>1 DEF Distinct
  <2>3. ASSUME NEW ok \in BOOLEAN, Leave(t, ok), mixed' = mixed PROVE Distinct'
    <3>1. /\ frame'[t] = NoFrame /\ \A u \in Threads : u # t => frame'[u] = frame[u]
          /\ frame[t].for \in Clients \union {Nobody} /\ Reply(frame[t].for, ok)
      BY <2>3, LeaveWhat
    <3>2. \A u \in Threads : frame'[u].tx = 0 \/ (frame'[u].tx = frame[u].tx /\ frame'[u].for = frame[u].for)
      BY <3>1 DEF NoFrame
    <3> QED BY <2>2, <2>3, <3>1, <3>2, DistinctReply
  <2>4. ASSUME Erase(t, frame[t].tx, NoFrame), Reply(frame[t].for, TRUE), mixed' = mixed PROVE Distinct'
    <3>1. /\ frame'[t] = NoFrame
          /\ \A u \in Threads : u # t => frame'[u].tx = frame[u].tx /\ frame'[u].for = frame[u].for
      BY <2>4, EraseWhat
    <3>2. \A u \in Threads : frame'[u].tx = 0 \/ (frame'[u].tx = frame[u].tx /\ frame'[u].for = frame[u].for)
      BY <3>1 DEF NoFrame
    <3>3. frame[t].for \in Clients \union {Nobody} BY DEF TypeOK, Frames
    <3> QED BY <2>2, <2>4, <3>2, <3>3, DistinctReply
  <2>5. ASSUME client' = client, frame' = [frame EXCEPT ![t].op = "erase"],
               mixed' = IF frame[t].tx \in crossed THEN mixed \union {frame[t].zone} ELSE mixed \ {frame[t].zone}
        PROVE  Distinct'
    <3>1. \A u \in Threads : frame'[u].tx = frame[u].tx /\ frame'[u].for = frame[u].for BY <2>5 DEF TypeOK, Frames
    <3>2. mixed' = {} BY <2>2, <2>5
    <3> QED BY <2>1, <2>2, <2>5, <3>1, <3>2 DEF Distinct
  <2> QED BY <1>2, <2>3, <2>4, <2>5, ContinueWhat
<1> QED BY <1>1, <1>2

\* A request that is given up keeps its name; a start is given up with its name.
LEMMA DistinctTimeOut ==
  ASSUME TypeOK, Sent, Distinct, NEW c \in Clients, TimeOut(c)
  PROVE  Distinct'
<1>0. 0 \notin TxIds /\ Nobody \notin Clients BY TransferAssumption
<1>1. /\ second' \in {0, second} /\ crossed' = crossed /\ mixed' = mixed
      /\ \A d \in Clients : d # c => client'[d] = client[d]
      /\ client'[c].tx \in {client[c].tx, 0} /\ client'[c].pc \notin Busy
      /\ client[c].pc = "start" => client'[c].tx = 0
      /\ \A t \in Threads :
           frame'[t].for = (IF frame[t].for = c THEN Nobody ELSE frame[t].for) /\ frame'[t].tx = frame[t].tx
      /\ late' = late \/ (late' = late \union {client[c]} /\ frame' = frame /\ ~Taken(c))
  BY TimeOutWhat
<1>2. second' = 0 /\ crossed' = {} /\ mixed' = {} BY <1>1 DEF Distinct
<1>3. ASSUME NEW d \in Clients, NEW e \in Clients, client'[d].tx = client'[e].tx PROVE d = e \/ client'[d].tx = 0
  BY <1>1, <1>3 DEF Distinct
<1>4. ASSUME NEW d \in Clients, client'[d].pc = "start"
      PROVE  /\ \A r \in late' : r.tx # client'[d].tx
             /\ \A t \in Threads : frame'[t].tx = client'[d].tx => frame'[t].for = d
  <2>1. d # c /\ client'[d] = client[d] BY <1>1, <1>4 DEF Busy
  <2>2. client[d].tx \in TxIds BY <1>4, <2>1 DEF Sent, Wellformed, Busy
  <2>3. client[c].tx # client[d].tx BY <1>0, <2>1, <2>2 DEF Distinct
  <2>4. /\ \A r \in late : r.tx # client[d].tx
        /\ \A t \in Threads : frame[t].tx = client[d].tx => frame[t].for = d
    BY <1>4, <2>1 DEF Distinct
  <2> QED BY <1>1, <2>1, <2>3, <2>4
<1>5. ASSUME NEW q \in late', q.pc = "start"
      PROVE  /\ \A s \in late' : s.tx = q.tx => s = q
             /\ \A t \in Threads : frame'[t].tx # q.tx
             /\ \A d \in Clients : client'[d].tx # q.tx
  <2>1. CASE q \in late
    <3>1. /\ \A s \in late : s.tx = q.tx => s = q
          /\ \A t \in Threads : frame[t].tx # q.tx
          /\ \A d \in Clients : client[d].tx # q.tx
      BY <1>5, <2>1 DEF Distinct
    <3>2. q.tx # 0 BY <1>0, <1>5, <2>1 DEF Sent, Wellformed, Busy
    <3> QED BY <1>1, <3>1, <3>2
  <2>2. CASE q = client[c] /\ late' = late \union {client[c]} /\ frame' = frame /\ ~Taken(c)
    <3>1. q.tx # 0 BY <1>0, <1>5, <2>2 DEF Sent, Wellformed, Busy
    <3>2. /\ \A r \in late : r.tx # q.tx
          /\ \A t \in Threads : frame[t].tx # q.tx
      BY <1>5, <2>2 DEF Distinct, Taken
    <3>3. \A d \in Clients : client'[d].tx # q.tx BY <1>1, <1>5, <2>2, <3>1 DEF Distinct
    <3> QED BY <2>2, <3>2, <3>3
  <2> QED BY <1>1, <1>5, <2>1, <2>2
<1> QED BY <1>2, <1>3, <1>4, <1>5 DEF Distinct

\* A transfer that starts takes a name that is not in use.
LEMMA DistinctPoll ==
  ASSUME TypeOK, Sent, Distinct, ~SameSecond, NEW c \in Clients, NEW z \in Zones, Poll(c, z)
  PROVE  Distinct'
<1>0. 0 \notin TxIds BY TransferAssumption
<1>1. /\ \A d \in Clients : d # c => client'[d] = client[d]
      /\ \/ client'[c].pc = "fresh" /\ client'[c].tx = 0 /\ second' = second
         \/ /\ client'[c].pc = "start" /\ client'[c].tx # 0 /\ second' = 0
            /\ second = 0 => client'[c].tx \notin NamesInUse
      /\ frame' = frame /\ late' = late /\ crossed' = crossed /\ mixed' = mixed
  BY PollWhat
<1>2. second = 0 /\ crossed = {} /\ mixed = {} BY DEF Distinct
<1>3. client'[c].tx # 0 =>
        /\ \A d \in Clients : client'[c].tx # client[d].tx
        /\ \A r \in late : r.tx # client'[c].tx
        /\ \A t \in Threads : frame[t].tx # client'[c].tx
  BY <1>1, <1>2 DEF NamesInUse
<1>4. ASSUME NEW d \in Clients, NEW e \in Clients, client'[d].tx = client'[e].tx PROVE d = e \/ client'[d].tx = 0
  <2>1. CASE d # c /\ e # c BY <1>1, <1>4, <2>1 DEF Distinct
  <2>2. CASE d = c \/ e = c BY <1>1, <1>3, <1>4, <2>2
  <2> QED BY <2>1, <2>2
<1>5. ASSUME NEW d \in Clients, client'[d].pc = "start"
      PROVE  /\ \A r \in late : r.tx # client'[d].tx
             /\ \A t \in Threads : frame[t].tx = client'[d].tx => frame[t].for = d
  <2>1. CASE d = c BY <1>1, <1>3, <1>5, <2>1
  <2>2. CASE d # c BY <1>1, <1>5, <2>2 DEF Distinct
  <2> QED BY <2>1, <2>2
<1>6. ASSUME NEW q \in late, q.pc = "start"
      PROVE  /\ \A s \in late : s.tx = q.tx => s = q
             /\ \A t \in Threads : frame[t].tx # q.tx
             /\ \A d \in Clients : client'[d].tx # q.tx
  <2>1. /\ \A s \in late : s.tx = q.tx => s = q
        /\ \A t \in Threads : frame[t].tx # q.tx
        /\ \A d \in Clients : client[d].tx # q.tx
    BY <1>6 DEF Distinct
  <2>2. q.tx # 0 BY <1>0, <1>6 DEF Sent, Wellformed, Busy
  <2> QED BY <1>1, <1>3, <2>1, <2>2
<1> QED BY <1>1, <1>2, <1>4, <1>5, <1>6 DEF Distinct

LEMMA InitDistinct == Init => Distinct
<1> SUFFICES ASSUME Init PROVE Distinct OBVIOUS
<1>1. \A c \in Clients : client[c].tx = 0 /\ client[c].pc = "idle" BY DEF Init, NoTransfer
<1> QED BY <1>1 DEF Init, Distinct

LEMMA NextDistinct == ~SameSecond /\ TransferInv /\ Distinct /\ [Next]_vars => Distinct'
<1> SUFFICES ASSUME ~SameSecond, TransferInv, Distinct, [Next]_vars PROVE Distinct' OBVIOUS
<1>0. TypeOK /\ Sent BY DEF TransferInv
<1>1. ASSUME NEW t \in Threads, NEW c \in Clients, Handle(t, c, client[c]) PROVE Distinct'
  BY <1>0, <1>1, DistinctHandle
<1>2. ASSUME NEW t \in Threads, NEW r \in late, Handle(t, Nobody, r) PROVE Distinct' BY <1>0, <1>2, DistinctHandle
<1>3. ASSUME NEW t \in Threads, Continue(t) PROVE Distinct' BY <1>0, <1>3, DistinctContinue
<1>4. ASSUME NEW c \in Clients, TimeOut(c) PROVE Distinct' BY <1>0, <1>4, DistinctTimeOut
<1>5. ASSUME NEW c \in Clients, NEW z \in Zones, Poll(c, z) PROVE Distinct' BY <1>0, <1>5, DistinctPoll
<1>6. ASSUME UNCHANGED <<frame, late, client, second, crossed, mixed>> PROVE Distinct' BY <1>6 DEF Distinct
<1>7. ASSUME NEW z \in Zones, Update(z) \/ Elapse(domainIds[z]) PROVE Distinct'
  BY <1>6, <1>7 DEF Update, Elapse, history
<1>8. CASE PollNothing BY <1>6, <1>8 DEF PollNothing, history
<1>9. CASE Tick BY <1>9 DEF Tick, Distinct
<1>10. CASE Restart BY <1>0, <1>10, DistinctEnds DEF Restart
<1>11. CASE UNCHANGED vars BY <1>6, <1>11 DEF vars
<1> QED BY <1>1, <1>2, <1>3, <1>4, <1>5, <1>7, <1>8, <1>9, <1>10, <1>11 DEF Next

-----------------------------------------------------------------------------

\* A zone has no data or all the records of one version, for any zones, clients, names and
\* any number of threads: whatever requests are given up and handled late, whatever commits
\* fail, whatever iterators are invalidated, and whenever the process ends. The one exception
\* is a zone stored under a name that startTransaction gave to a second transfer while an
\* earlier one of that name still had requests to come, and there is none as long as no two
\* transfers start in the same second.
THEOREM TransfersWhole == Spec => []WholeZones
<1> DEFINE I == TransferInv /\ (SameSecond \/ Distinct)
<1>1. Init => I BY InitHolds, InitDistinct
<1>2. I /\ [Next]_vars => I' BY NextHolds, NextDistinct
<1>3. I => WholeZones BY DEF TransferInv, Unmixed, Whole, Distinct, WholeZones
<1> QED BY <1>1, <1>2, <1>3, PTL DEF Spec
=============================================================================
