--------------------------- MODULE PairingProofs ---------------------------
(* Type correctness of Pairing, and what a paired certificate and a        *)
(* persisted client id mean, for any devices, ids, rounds and disruptions. *)
EXTENDS Pairing, TLAPS

\* The parts of TypeOK that the steps of the requests change ...
RequestTypes ==
    /\ device \in [Round -> Device]
    /\ task \in [Round -> {"free", "started", "waiting", "woken", "answered", "gone"}]
    /\ known \in [Round -> 0..MaxChallenges]
    /\ pending \in [Id -> Entry]
    /\ challenges \in 0..MaxChallenges
    /\ vouched \in SUBSET Round

\* ... and those that the persistence changes.
StateTypes ==
    /\ mem \in StateData
    /\ disk \in Disk
    /\ commit \in Commits
    /\ acked \in SUBSET Device

LEMMA TypeParts == TypeOK <=> RequestTypes /\ StateTypes /\ up \in BOOLEAN
BY Zenon DEF TypeOK, RequestTypes, StateTypes

\* What is left of a save that is cut short has no certificates.
LEMMA CutTypes ==
    ASSUME NEW data \in StateData, NEW rest \in CutShort(data)
    PROVE  rest \in Disk /\ rest.cut /\ rest.data.certs = {} /\ rest.data.clients \subseteq data.clients
<1>1. Empty \in StateData /\ Empty.certs = {} /\ Empty.clients = {}
  BY DEF Empty, StateData
<1> DEFINE left == [data EXCEPT !.certs = {}]
<1>3. left \in StateData /\ left.certs = {} /\ left.clients = data.clients
  BY DEF StateData
<1>4. \/ rest = [file |-> "torn", data |-> Empty, cut |-> TRUE]
      \/ rest = [file |-> "valid", data |-> Empty, cut |-> TRUE]
      \/ rest = [file |-> "valid", data |-> left, cut |-> TRUE]
  BY DEF CutShort
<1> HIDE DEF left
<1>5. PICK name \in {"valid", "torn"}, d \in {Empty, left} : rest = [file |-> name, data |-> d, cut |-> TRUE]
  BY <1>4
<1>6. d \in StateData
  BY <1>1, <1>3
<1>7. [file |-> name, data |-> d, cut |-> TRUE] \in [file : {"valid", "torn"}, data : StateData, cut : BOOLEAN]
  BY <1>6
<1>8. rest.data = d /\ rest.cut
  BY <1>5
<1> QED
  BY <1>1, <1>3, <1>5, <1>7, <1>8 DEF Disk

\* An update of one field of a PendingClient keeps its type.
LEMMA EntryTypes ==
    ASSUME NEW e \in Entry
    PROVE  /\ NoEntry \in Entry
           /\ \A r \in Round : [NoEntry EXCEPT !.round = r] \in Entry
           /\ \A pin \in Pin : [e EXCEPT !.key = pin] \in Entry
           /\ \A c \in 0..MaxChallenges : [e EXCEPT !.challenge = c] \in Entry
           /\ \A r \in Round, c \in 0..MaxChallenges :
                 [e EXCEPT !.by = r, !.over = c] \in Entry
<1> USE ConstantsAssumption DEF ConstantsAssumption, Entry
<1>1. NoEntry \in Entry /\ \A r \in Round : [NoEntry EXCEPT !.round = r] \in Entry
  BY DEF NoEntry, Round
<1>2. \A pin \in Pin : [e EXCEPT !.key = pin] \in Entry
  BY DEF Pin
<1>3. \A c \in 0..MaxChallenges : [e EXCEPT !.challenge = c] \in Entry
  OBVIOUS
<1>4. ASSUME NEW r \in Round, NEW c \in 0..MaxChallenges
      PROVE  [e EXCEPT !.by = r, !.over = c] \in Entry
  <2>1. r \in 0..MaxRounds
    BY DEF Round
  <2>2. [e EXCEPT !.by = r] \in Entry
    BY <2>1
  <2> QED
    BY <2>2
<1> QED
  BY <1>1, <1>2, <1>3, <1>4

\* Every step of a request keeps the types of the request state.
LEMMA RequestStep ==
    ASSUME RequestTypes, NEW r \in Round,
           \/ StartPairing(r) \/ WaitForPin(r) \/ AnswerServerCert(r)
           \/ Disconnect(r) \/ ClientChallenge(r) \/ ServerChallengeResponse(r)
    PROVE  RequestTypes'
<1> USE ConstantsAssumption DEF ConstantsAssumption
<1>i. IdOfRound(r) \in Id
  BY DEF RequestTypes, IdOfRound
<1>e. pending[IdOfRound(r)] \in Entry
  BY <1>i DEF RequestTypes
<1>1. CASE StartPairing(r)
  <2>1. pending' \in [Id -> Entry]
    BY <1>1, <1>i, <1>e, EntryTypes DEF RequestTypes, StartPairing
  <2> QED
    BY <1>1, <2>1 DEF RequestTypes, StartPairing
<1>2. CASE WaitForPin(r) \/ AnswerServerCert(r) \/ Disconnect(r)
  BY <1>2 DEF RequestTypes, WaitForPin, AnswerServerCert, Disconnect
<1>3. CASE ClientChallenge(r)
  <2>1. challenges + 1 \in 0..MaxChallenges
    BY <1>3 DEF RequestTypes, ClientChallenge
  <2>2. pending' \in [Id -> Entry]
    BY <1>3, <1>i, <1>e, <2>1, EntryTypes DEF RequestTypes, ClientChallenge
  <2> QED
    BY <1>3, <2>1, <2>2 DEF RequestTypes, ClientChallenge
<1>4. CASE ServerChallengeResponse(r)
  <2>1. known[r] \in 0..MaxChallenges /\ 0 \in 0..MaxChallenges
    BY DEF RequestTypes
  <2>2. pending' \in [Id -> Entry]
    <3> DEFINE over == IF SharesKey(r) THEN known[r] ELSE 0
    <3>1. over \in 0..MaxChallenges
      BY <2>1
    <3>2. [pending[IdOfRound(r)] EXCEPT !.by = r, !.over = over] \in Entry
      BY <1>e, <3>1, EntryTypes
    <3>3. pending' = [pending EXCEPT ![IdOfRound(r)] =
                          [pending[IdOfRound(r)] EXCEPT !.by = r, !.over = over]]
      BY <1>4, <1>i, <1>e DEF ServerChallengeResponse, RequestTypes, Entry
    <3> QED
      BY <3>2, <3>3, <1>i DEF RequestTypes
  <2> QED
    BY <1>4, <2>2 DEF RequestTypes, ServerChallengeResponse, requestVars
<1> QED
  BY <1>1, <1>2, <1>3, <1>4

\* So does a submitted PIN.
LEMMA PinStep ==
    ASSUME RequestTypes, NEW i \in Id, NEW pin \in Pin, RegisterPin(i, pin)
    PROVE  RequestTypes'
<1>1. pending[i] \in Entry
  BY DEF RequestTypes
<1>2. pending' \in [Id -> Entry]
  BY <1>1, EntryTypes DEF RequestTypes, RegisterPin
<1>3. pending[i].round \in Round
  BY <1>1, ConstantsAssumption DEF RegisterPin, Entry, Round, ConstantsAssumption
<1> QED
  BY <1>2, <1>3 DEF RequestTypes, RegisterPin

\* A commit in progress is the one of a round, and an id and a device.
LEMMA CommitRound ==
    ASSUME RequestTypes, commit \in Commits, commit.at # "idle"
    PROVE  /\ commit \in [at : {"saveCert", "check", "saveClient"}, round : Round]
           /\ commit.round \in Round
           /\ device[commit.round] \in Device
           /\ IdOfRound(commit.round) \in Id
BY ConstantsAssumption
DEF ConstantsAssumption, RequestTypes, Commits, Idle, IdOfRound

\* The persistent state and the commit keep their types.
LEMMA StateStep ==
    ASSUME RequestTypes, StateTypes,
           \/ \E r \in Round : CheckSecret(r)
           \/ Save \/ SaveFails \/ AddClient \/ Crash \/ Restart
    PROVE  StateTypes'
<1>0. Idle \in Commits /\ Empty \in StateData
  BY DEF Idle, Empty, Commits, StateData
<1>1. ASSUME NEW r \in Round, CheckSecret(r) PROVE StateTypes'
  <2>1. device[r] \in Device
    BY DEF RequestTypes
  <2>2. mem' \in StateData
    BY <1>1, <2>1 DEF StateTypes, StateData, CheckSecret
  <2>3. commit' \in Commits
    BY <1>1 DEF Commits, CheckSecret
  <2> QED
    BY <1>1, <2>2, <2>3 DEF StateTypes, CheckSecret
<1>2. CASE Save
  <2>1. commit.at # "idle"
    BY <1>2 DEF Save
  <2>2. disk' \in Disk
    BY <1>2 DEF StateTypes, Save, Disk
  <2>3. commit' \in Commits
    BY <1>2, <1>0, <2>1, CommitRound DEF StateTypes, Save, SaveReturns, Commits
  <2>4. acked' \in SUBSET Device
    BY <1>2, <2>1, CommitRound DEF StateTypes, Save, SaveReturns
  <2> QED
    BY <1>2, <2>2, <2>3, <2>4 DEF StateTypes, Save
<1>3. CASE SaveFails
  BY <1>3, <1>0, CutTypes DEF StateTypes, SaveFails
<1>4. CASE AddClient
  <2>1. commit.at # "idle"
    BY <1>4 DEF AddClient
  <2>2. mem' \in StateData
    BY <1>4, <2>1, CommitRound DEF StateTypes, StateData, AddClient
  <2>3. commit' \in Commits
    BY <1>4, <1>0, <2>1, CommitRound DEF StateTypes, AddClient, Commits
  <2>4. acked' \in SUBSET Device
    BY <1>4, <2>1, CommitRound DEF StateTypes, AddClient
  <2> QED
    BY <1>4, <2>2, <2>3, <2>4 DEF StateTypes, AddClient
<1>5. CASE Crash
  BY <1>5, <1>0, CutTypes DEF StateTypes, Crash
<1>6. CASE Restart
  <2>1. disk.data \in StateData
    BY DEF StateTypes, Disk
  <2> QED
    BY <1>6, <2>1, CutTypes DEF StateTypes, Restart
<1> QED
  BY <1>1, <1>2, <1>3, <1>4, <1>5, <1>6

\* What each half of the steps leaves alone.
LEMMA Frames ==
    /\ \A r \in Round :
          \/ StartPairing(r) \/ WaitForPin(r) \/ AnswerServerCert(r)
          \/ Disconnect(r) \/ ClientChallenge(r) \/ ServerChallengeResponse(r)
          => UNCHANGED <<mem, disk, commit, acked, up>>
    /\ \A i \in Id, pin \in Pin :
          RegisterPin(i, pin) => UNCHANGED <<mem, disk, commit, acked, up>>
    /\ (\E r \in Round : CheckSecret(r)) \/ Save \/ SaveFails \/ AddClient
          => UNCHANGED <<requestVars, pending, challenges, vouched, up>>
    /\ Restart => UNCHANGED <<requestVars, pending, challenges, vouched>>
BY DEF StartPairing, WaitForPin, AnswerServerCert, Disconnect, ClientChallenge,
       ServerChallengeResponse, RegisterPin, CheckSecret, Save, SaveFails, AddClient, Restart

\* Every step keeps the types.
LEMMA TypeStep == TypeOK /\ [Next]_vars => TypeOK'
<1> SUFFICES ASSUME TypeOK, [Next]_vars PROVE TypeOK'
  OBVIOUS
<1>0. RequestTypes /\ StateTypes /\ up \in BOOLEAN
  BY TypeParts
<1>1. ASSUME NEW r \in Round,
             \/ StartPairing(r) \/ WaitForPin(r) \/ AnswerServerCert(r)
             \/ Disconnect(r) \/ ClientChallenge(r) \/ ServerChallengeResponse(r)
      PROVE  RequestTypes' /\ StateTypes' /\ up' \in BOOLEAN
  <2>1. RequestTypes'
    BY <1>0, <1>1, RequestStep
  <2>2. UNCHANGED <<mem, disk, commit, acked, up>>
    BY <1>1, Frames
  <2> QED
    BY <1>0, <2>1, <2>2 DEF StateTypes
<1>2. ASSUME NEW i \in Id, NEW pin \in Pin, RegisterPin(i, pin)
      PROVE  RequestTypes' /\ StateTypes' /\ up' \in BOOLEAN
  <2>1. RequestTypes'
    BY <1>0, <1>2, PinStep
  <2>2. UNCHANGED <<mem, disk, commit, acked, up>>
    BY <1>2, Frames
  <2> QED
    BY <1>0, <2>1, <2>2 DEF StateTypes
<1>3. CASE (\E r \in Round : CheckSecret(r)) \/ Save \/ SaveFails \/ AddClient
  <2>1. StateTypes'
    BY <1>0, <1>3, StateStep
  <2>2. UNCHANGED <<requestVars, pending, challenges, vouched, up>>
    BY <1>3, Frames
  <2>3. RequestTypes' /\ up' \in BOOLEAN
    BY <1>0, <2>2 DEF RequestTypes, requestVars
  <2> QED
    BY <2>1, <2>3, TypeParts DEF TypeOK, RequestTypes, StateTypes
<1>4. CASE Crash
  <2>1. StateTypes'
    BY <1>0, <1>4, StateStep
  <2>2. pending' \in [Id -> Entry]
    BY <1>4, ConstantsAssumption DEF ConstantsAssumption, Crash, Entry, NoEntry
  <2>3. RequestTypes'
    BY <1>0, <1>4, <2>2 DEF RequestTypes, Crash
  <2> QED
    BY <1>4, <2>1, <2>3, Zenon DEF TypeOK, RequestTypes, StateTypes, Crash
<1>5. CASE Restart
  <2>1. StateTypes'
    BY <1>0, <1>5, StateStep
  <2>2. RequestTypes'
    BY <1>0, <1>5, Frames DEF RequestTypes, requestVars
  <2>3. up' \in BOOLEAN
    BY <1>0, <1>5 DEF Restart
  <2> QED
    BY <2>1, <2>2, <2>3, Zenon DEF TypeOK, RequestTypes, StateTypes
<1>6. CASE UNCHANGED vars
  BY <1>6 DEF TypeOK, vars, requestVars
<1> QED
  <2>1. ASSUME RequestTypes' /\ StateTypes' /\ up' \in BOOLEAN PROVE TypeOK'
    BY <2>1, Zenon DEF TypeOK, RequestTypes, StateTypes
  <2> QED
    BY <1>1, <1>2, <1>3, <1>4, <1>5, <1>6, <2>1 DEF Next

\* The pending clients, the persistent state and the requests are well typed
\* in every reachable state, and a commit always has its round.
THEOREM TypeCorrect == Safe => []TypeOK
<1>1. Init => TypeOK
  <2> SUFFICES ASSUME Init PROVE TypeOK
    OBVIOUS
  <2>1. RequestTypes
    BY ConstantsAssumption
    DEF ConstantsAssumption, Init, RequestTypes, Entry, NoEntry
  <2>2. StateTypes
    BY DEF Init, StateTypes, StateData, Empty, Commits, Disk
  <2> QED
    BY <2>1, <2>2, Zenon DEF Init, TypeOK, RequestTypes, StateTypes
<1> QED
  BY <1>1, TypeStep, PTL DEF Safe

-----------------------------------------------------------------------------
(* What a paired certificate means.                                        *)

\* A challenge can be read, and a hash over it made, only in a round whose own
\* PIN was submitted: the inductive form of CertMeansOwnPin.
OwnPinInv ==
    /\ \A i \in Id : pending[i].round # 0 /\ pending[i].key = pending[i].round
                      => pending[i].round \in vouched
    /\ \A r \in Round : known[r] # 0 => r \in vouched
    /\ \A i \in Id : pending[i].over # 0 => pending[i].by \in vouched
    /\ mem.certs \subseteq {device[r] : r \in vouched}
    /\ disk.data.certs \subseteq {device[r] : r \in vouched}

LEMMA OwnPinStep == TypeOK /\ OwnPinInv /\ [Next]_vars => OwnPinInv'
<1> SUFFICES ASSUME TypeOK, OwnPinInv, [Next]_vars PROVE OwnPinInv'
  OBVIOUS
<1>0. RequestTypes /\ StateTypes
  BY TypeParts
<1>i. \A r \in Round : IdOfRound(r) \in Id
  BY <1>0, ConstantsAssumption DEF ConstantsAssumption, RequestTypes, IdOfRound
<1>e. \A i \in Id : pending[i] \in Entry
  BY <1>0 DEF RequestTypes
<1>k. \A r \in Round : SharesKey(r) => r \in vouched
  BY <1>i DEF OwnPinInv, SharesKey, Round
<1>1. ASSUME NEW r \in Round, StartPairing(r) PROVE OwnPinInv'
  <2> DEFINE fresh == [NoEntry EXCEPT !.round = r]
  <2>1. fresh.round = r /\ fresh.key = 0 /\ fresh.over = 0
    BY DEF NoEntry
  <2>2. \A i \in Id : pending'[i] = pending[i] \/ pending'[i] = fresh
    BY <1>0, <1>1, <1>i DEF StartPairing, RequestTypes
  <2>3. \A i \in Id : pending'[i].round # 0 /\ pending'[i].key = pending'[i].round
                      => pending'[i].round \in vouched
    BY <2>1, <2>2 DEF OwnPinInv
  <2>4. \A i \in Id : pending'[i].over # 0 => pending'[i].by \in vouched
    BY <2>1, <2>2 DEF OwnPinInv
  <2> QED
    BY <1>1, <2>3, <2>4 DEF OwnPinInv, StartPairing
<1>2. ASSUME NEW r \in Round,
             WaitForPin(r) \/ AnswerServerCert(r) \/ Disconnect(r)
      PROVE  OwnPinInv'
  BY <1>2 DEF OwnPinInv, WaitForPin, AnswerServerCert, Disconnect
<1>3. ASSUME NEW r \in Round, ClientChallenge(r) PROVE OwnPinInv'
  <2>1. \A i \in Id : /\ pending'[i].round = pending[i].round
                       /\ pending'[i].key = pending[i].key
                       /\ pending'[i].by = pending[i].by
                       /\ pending'[i].over = pending[i].over
    BY <1>0, <1>e, <1>3, <1>i DEF ClientChallenge, RequestTypes, Entry
  <2>2. \A q \in Round : known'[q] # 0 => q \in vouched
    BY <1>0, <1>3, <1>k DEF ClientChallenge, RequestTypes, OwnPinInv
  <2> QED
    BY <1>3, <2>1, <2>2 DEF OwnPinInv, ClientChallenge
<1>4. ASSUME NEW r \in Round, ServerChallengeResponse(r) PROVE OwnPinInv'
  <2>1. \A i \in Id : /\ pending'[i].round = pending[i].round
                       /\ pending'[i].key = pending[i].key
    BY <1>0, <1>e, <1>4, <1>i DEF ServerChallengeResponse, RequestTypes, Entry
  <2>2. \A i \in Id : pending'[i].over # 0 => pending'[i].by \in vouched
    <3>1. SharesKey(r) => r \in vouched
      BY <1>k
    <3>2. /\ pending'[IdOfRound(r)].by = r
          /\ pending'[IdOfRound(r)].over = IF SharesKey(r) THEN known[r] ELSE 0
      BY <1>0, <1>e, <1>4, <1>i DEF ServerChallengeResponse, RequestTypes, Entry
    <3>3. \A i \in Id : i # IdOfRound(r) => pending'[i] = pending[i]
      BY <1>0, <1>4, <1>i DEF ServerChallengeResponse, RequestTypes
    <3> QED
      BY <3>1, <3>2, <3>3 DEF OwnPinInv
  <2>3. UNCHANGED <<device, known, mem, disk, vouched>>
    BY <1>4 DEF ServerChallengeResponse, requestVars
  <2> QED
    BY <2>1, <2>2, <2>3 DEF OwnPinInv
<1>5. ASSUME NEW r \in Round, CheckSecret(r) PROVE OwnPinInv'
  <2>1. r \in vouched
    BY <1>5, <1>i DEF CheckSecret, VerifyPairingSecret, OwnPinInv
  <2>2. mem'.certs = mem.certs \cup {device[r]}
    BY <1>0, <1>5 DEF CheckSecret, StateTypes, StateData
  <2> QED
    BY <1>5, <2>1, <2>2 DEF OwnPinInv, CheckSecret, requestVars
<1>6. ASSUME NEW i \in Id, NEW pin \in Pin, RegisterPin(i, pin) PROVE OwnPinInv'
  <2>1. /\ pending'[i].round = pending[i].round
        /\ pending'[i].key = pin
        /\ pending'[i].by = pending[i].by
        /\ pending'[i].over = pending[i].over
    BY <1>0, <1>e, <1>6 DEF RegisterPin, RequestTypes, Entry
  <2>2. \A j \in Id : j # i => pending'[j] = pending[j]
    BY <1>0, <1>6 DEF RegisterPin, RequestTypes
  <2>3. vouched' = vouched \cup ({pending[i].round} \cap {pin})
    BY <1>6 DEF RegisterPin
  <2> QED
    BY <1>6, <2>1, <2>2, <2>3 DEF OwnPinInv, RegisterPin
<1>7. CASE Save
  <2>1. disk'.data = mem
    BY <1>0, <1>7 DEF Save, StateTypes, Disk
  <2> QED
    BY <1>7, <2>1 DEF OwnPinInv, Save, requestVars
<1>8. CASE SaveFails
  <2>1. disk'.data.certs \subseteq disk.data.certs
    BY <1>0, <1>8, CutTypes DEF SaveFails, StateTypes
  <2> QED
    BY <1>8, <2>1 DEF OwnPinInv, SaveFails, requestVars
<1>9. CASE AddClient
  <2>1. mem'.certs = mem.certs
    BY <1>0, <1>9 DEF AddClient, StateTypes, StateData
  <2> QED
    BY <1>9, <2>1 DEF OwnPinInv, AddClient, requestVars
<1>10. CASE Crash
  <2>1. disk'.data.certs \subseteq disk.data.certs
    BY <1>0, <1>10, CutTypes DEF Crash, StateTypes
  <2>2. \A i \in Id : pending'[i].round = 0 /\ pending'[i].over = 0
    BY <1>10 DEF Crash, NoEntry
  <2>3. mem'.certs = {}
    BY <1>10 DEF Crash, Empty
  <2> QED
    BY <1>10, <2>1, <2>2, <2>3 DEF OwnPinInv, Crash
<1>11. CASE Restart
  <2>1. disk'.data.certs \subseteq disk.data.certs
    BY <1>0, <1>11, CutTypes DEF Restart, StateTypes, Disk
  <2>2. mem' = disk.data \/ mem' = mem
    BY <1>11 DEF Restart
  <2> QED
    BY <1>11, <2>1, <2>2 DEF OwnPinInv, Restart, requestVars
<1>12. CASE UNCHANGED vars
  BY <1>12 DEF OwnPinInv, vars, requestVars
<1> QED
  BY <1>1, <1>2, <1>3, <1>4, <1>5, <1>6, <1>7, <1>8, <1>9, <1>10, <1>11, <1>12
  DEF Next

\* A certificate is in memory or in the file only if the user submitted the
\* PIN of its device in a round of that device, through any number of devices
\* that share ids, repeated requests, failed saves, crashes and restarts.
THEOREM PairedByOwnPin == Safe => []CertMeansOwnPin
<1>1. Init => OwnPinInv
  BY DEF Init, OwnPinInv, NoEntry, Empty
<1>2. OwnPinInv => CertMeansOwnPin
  BY DEF OwnPinInv, CertMeansOwnPin
<1> QED
  BY <1>1, <1>2, OwnPinStep, TypeCorrect, PTL DEF Safe

-----------------------------------------------------------------------------
(* What a persisted client id means.                                       *)

Certified(data) == \A i \in data.clients : \E d \in data.certs : IdOf[d] = i

\* In memory and in the file, and for the round that is being committed: the
\* inductive form of ClientsHaveCert.
CertFirstInv ==
    /\ disk.cut \/ (Certified(mem) /\ Certified(disk.data))
    /\ commit.at # "idle" => up /\ device[commit.round] \in mem.certs

LEMMA CertFirstStep == TypeOK /\ CertFirstInv /\ [Next]_vars => CertFirstInv'
<1> SUFFICES ASSUME TypeOK, CertFirstInv, [Next]_vars PROVE CertFirstInv'
  OBVIOUS
<1>0. RequestTypes /\ StateTypes
  BY TypeParts
<1>1. ASSUME NEW r \in Round,
             \/ StartPairing(r) \/ WaitForPin(r) \/ AnswerServerCert(r)
             \/ Disconnect(r) \/ ClientChallenge(r) \/ ServerChallengeResponse(r)
      PROVE  CertFirstInv'
  <2>1. UNCHANGED <<device, mem, disk, commit, up>>
    BY <1>1 DEF StartPairing, WaitForPin, AnswerServerCert, Disconnect,
                ClientChallenge, ServerChallengeResponse, requestVars
  <2> QED
    BY <2>1 DEF CertFirstInv, Certified
<1>2. ASSUME NEW i \in Id, NEW pin \in Pin, RegisterPin(i, pin) PROVE CertFirstInv'
  BY <1>2 DEF RegisterPin, CertFirstInv, Certified
<1>3. ASSUME NEW r \in Round, CheckSecret(r) PROVE CertFirstInv'
  <2>1. mem'.certs = mem.certs \cup {device[r]} /\ mem'.clients = mem.clients
    BY <1>0, <1>3 DEF CheckSecret, StateTypes, StateData
  <2>2. UNCHANGED <<device, disk>> /\ commit'.round = r /\ up'
    BY <1>3 DEF CheckSecret, Unlocked, requestVars
  <2> QED
    BY <2>1, <2>2 DEF CertFirstInv, Certified
<1>4. CASE Save
  <2>1. disk'.data = mem /\ disk'.cut = disk.cut /\ UNCHANGED <<device, mem, up>>
    BY <1>0, <1>4 DEF Save, requestVars, StateTypes, Disk
  <2>2. commit'.at # "idle" => commit'.round = commit.round /\ commit.at # "idle"
    BY <1>0, <1>4 DEF Save, SaveReturns, Idle, StateTypes, Commits
  <2> QED
    BY <2>1, <2>2 DEF CertFirstInv, Certified
<1>5. CASE SaveFails
  <2>1. (disk' = disk \/ disk'.cut) /\ UNCHANGED <<device, mem>> /\ commit'.at = "idle"
    BY <1>0, <1>5, CutTypes DEF SaveFails, StateTypes, Idle, requestVars
  <2> QED
    BY <2>1 DEF CertFirstInv, Certified
<1>6. CASE AddClient
  <2>1. commit.at = "check" /\ UNCHANGED <<device, disk, up>>
    BY <1>6 DEF AddClient, requestVars
  <2>2. /\ mem'.certs = mem.certs
        /\ mem'.clients \subseteq mem.clients \cup {IdOf[device[commit.round]]}
    BY <1>0, <1>6 DEF AddClient, StateTypes, StateData, IdOfRound
  <2>3. commit'.at # "idle" => commit'.round = commit.round
    BY <1>0, <1>6, <2>1, CommitRound DEF AddClient, StateTypes, Idle
  <2>4. device[commit.round] \in mem.certs
    BY <2>1 DEF CertFirstInv
  <2> QED
    BY <2>1, <2>2, <2>3, <2>4 DEF CertFirstInv, Certified
<1>7. CASE Crash
  <2>1. (disk' = disk \/ disk'.cut) /\ mem'.clients = {} /\ commit'.at = "idle"
    BY <1>0, <1>7, CutTypes DEF Crash, StateTypes, Empty, Idle
  <2> QED
    BY <2>1 DEF CertFirstInv, Certified
<1>8. CASE Restart
  <2>1. (disk' = disk \/ disk'.cut) /\ UNCHANGED <<device, commit>> /\ ~up
    BY <1>0, <1>8, CutTypes DEF Restart, StateTypes, requestVars, Disk
  <2>2. mem' = disk.data \/ mem' = mem
    BY <1>8 DEF Restart
  <2> QED
    BY <2>1, <2>2 DEF CertFirstInv, Certified
<1>9. CASE UNCHANGED vars
  BY <1>9 DEF CertFirstInv, Certified, vars, requestVars
<1> QED
  BY <1>1, <1>2, <1>3, <1>4, <1>5, <1>6, <1>7, <1>8, <1>9 DEF Next

\* The certificate of a device is persisted before its id: no failed save, crash or
\* restart leaves an id in the file without a certificate, as long as no save has been
\* cut short (add_paired_cert, add_client).
THEOREM PersistedClientsHaveCert == Safe => []ClientsHaveCert
<1>1. Init => CertFirstInv
  BY DEF Init, CertFirstInv, Certified, Empty, Idle
<1>2. CertFirstInv => ClientsHaveCert
  BY DEF CertFirstInv, Certified, ClientsHaveCert
<1> QED
  BY <1>1, <1>2, CertFirstStep, TypeCorrect, PTL DEF Safe

-----------------------------------------------------------------------------
(* What an answered clientpairingsecret means.                             *)

\* Memory and file differ in certificates only while one is being saved, and the file
\* never has more than memory: the inductive form of AckedIsDurable.
DurableInv ==
    /\ disk.file = "valid" /\ acked \subseteq disk.data.certs
    /\ up => disk.data.certs \subseteq mem.certs
    /\ up /\ commit.at # "saveCert" => mem.certs \subseteq disk.data.certs

LEMMA DurableStep ==
    ASSUME {"save", "torn"} \cap Disruptions = {},
           TypeOK, CertFirstInv, DurableInv, [Next]_vars
    PROVE  DurableInv'
<1>0. RequestTypes /\ StateTypes
  BY TypeParts
<1>1. ASSUME NEW r \in Round,
             \/ StartPairing(r) \/ WaitForPin(r) \/ AnswerServerCert(r)
             \/ Disconnect(r) \/ ClientChallenge(r) \/ ServerChallengeResponse(r)
      PROVE  DurableInv'
  BY <1>1, Frames DEF DurableInv
<1>2. ASSUME NEW i \in Id, NEW pin \in Pin, RegisterPin(i, pin) PROVE DurableInv'
  BY <1>2, Frames DEF DurableInv
<1>3. ASSUME NEW r \in Round, CheckSecret(r) PROVE DurableInv'
  <2>1. mem'.certs = mem.certs \cup {device[r]}
    BY <1>0, <1>3 DEF CheckSecret, StateTypes, StateData
  <2>2. /\ UNCHANGED <<disk, acked, up>> /\ up /\ commit.at = "idle"
        /\ commit'.at = IF device[r] \in mem.certs THEN "check" ELSE "saveCert"
    BY <1>3 DEF CheckSecret, Unlocked
  <2> QED
    BY <2>1, <2>2 DEF DurableInv
<1>4. CASE Save
  <2>1. /\ disk'.file = "valid" /\ disk'.data = mem
        /\ UNCHANGED <<mem, up>> /\ up /\ commit.at # "idle"
    BY <1>4 DEF Save
  <2>2. acked' \subseteq acked \cup {device[commit.round]}
    BY <1>4 DEF Save, SaveReturns
  <2> QED
    BY <2>1, <2>2 DEF DurableInv, CertFirstInv
<1>5. CASE SaveFails
  BY <1>5 DEF SaveFails
<1>6. CASE AddClient
  <2>1. commit.at = "check" /\ up /\ UNCHANGED <<disk, up>>
    BY <1>6 DEF AddClient
  <2>2. mem'.certs = mem.certs /\ acked' \subseteq acked \cup {device[commit.round]}
    BY <1>0, <1>6 DEF AddClient, StateTypes, StateData
  <2>3. commit'.at # "saveCert"
    BY <1>0, <1>6, CommitRound DEF AddClient, StateTypes, Idle
  <2> QED
    BY <2>1, <2>2, <2>3 DEF DurableInv, CertFirstInv
<1>7. CASE Crash
  BY <1>7 DEF Crash, DurableInv
<1>8. CASE Restart
  BY <1>8 DEF Restart, DurableInv
<1>9. CASE UNCHANGED vars
  BY <1>9 DEF DurableInv, vars
<1> QED
  BY <1>1, <1>2, <1>3, <1>4, <1>5, <1>6, <1>7, <1>8, <1>9 DEF Next

\* A device that was told it is paired is in the file, and is paired after any number
\* of crashes and restarts, as long as every save succeeds and is not cut short: after
\* a failed one the certificate is known in memory alone, and a repeated request is
\* answered without another save.
THEOREM AckedStaysPaired ==
    ASSUME {"save", "torn"} \cap Disruptions = {}
    PROVE  Safe => []AckedIsDurable
<1>1. Init => CertFirstInv /\ DurableInv
  BY DEF Init, CertFirstInv, Certified, DurableInv, Empty, Idle
<1>2. TypeOK /\ CertFirstInv /\ DurableInv /\ [Next]_vars => CertFirstInv' /\ DurableInv'
  BY CertFirstStep, DurableStep
<1>3. DurableInv => AckedIsDurable
  BY DEF DurableInv, AckedIsDurable
<1> QED
  BY <1>1, <1>2, <1>3, TypeCorrect, PTL DEF Safe
=============================================================================
