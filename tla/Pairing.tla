------------------------------- MODULE Pairing -------------------------------
(***************************************************************************)
(* Pairing: the pending clients and the persistent state behind the /pair  *)
(* and /submit-pin requests.  A pairing round is one getservercert request *)
(* of a device; the entry of its client id is replaced by every new round  *)
(* (Moonlight devices share a default id).  The PIN shown in round r is r. *)
(* Encryption is modelled by what it lets the two sides read: under a key  *)
(* made of another salt or PIN, both sides see noise.                      *)
(***************************************************************************)
EXTENDS Naturals

CONSTANTS
    Device,         \* client devices, each with its own certificate
    Id,             \* the uniqueid parameters that devices send
    IdOf,           \* the id of each device
    MaxRounds,      \* bound: getservercert requests
    MaxChallenges,  \* bound: server challenges
    Disruptions     \* what may go wrong: see Disruption

\* A save fails; a failing save, or a crash during one, cuts the file short; the
\* process is killed; the task of a request is polled late, after the PIN was
\* submitted.
Disruption == {"save", "torn", "crash", "late"}

ASSUME ConstantsAssumption ==
    /\ IdOf \in [Device -> Id]
    /\ MaxRounds \in Nat /\ MaxChallenges \in Nat
    /\ Disruptions \subseteq Disruption

Round == 1..MaxRounds
\* The last PIN is one that no device shows.
Pin == 1..(MaxRounds + 1)

VARIABLES
    device,     \* the device of each round, once it has started
    task,       \* the getservercert request of each round
    known,      \* the server challenge that each round's device could decrypt
    pending,    \* pending_clients
    challenges, \* server challenges generated
    mem,        \* StateData in memory
    disk,       \* state.toml; history: whether some save was cut short
    commit,     \* check_client_pairing_secret, which holds pending_clients
    acked,      \* devices whose clientpairingsecret request was answered 200
    vouched,    \* history: rounds whose own PIN was submitted
    up          \* the process runs

requestVars == <<device, task, known>>
vars == <<requestVars, pending, challenges, mem, disk, commit, acked, vouched, up>>

\* A PendingClient; 0 stands for None.  server_secret shapes only replies.
\* A client_hash that is not over the challenge it should be is over 0.
NoEntry == [round |-> 0, key |-> 0, challenge |-> 0, by |-> 0, over |-> 0]
Entry == [round : 0..MaxRounds, key : 0..(MaxRounds + 1),
          challenge : 0..MaxChallenges, by : 0..MaxRounds, over : 0..MaxChallenges]

StateData == [clients : SUBSET Id, certs : SUBSET Device]
Empty == [clients |-> {}, certs |-> {}]
Disk == [file : {"valid", "torn"}, data : StateData, cut : BOOLEAN]

\* What a save of data that is cut short leaves.  The file has the id of the host, then
\* the clients, then the certificates: without the first it does not parse, a list that
\* is missing is taken for an empty one, and one that is begun does not parse.
CutShort(data) ==
    {[file |-> "torn", data |-> Empty, cut |-> TRUE],
     [file |-> "valid", data |-> Empty, cut |-> TRUE],
     [file |-> "valid", data |-> [data EXCEPT !.certs = {}], cut |-> TRUE]}

Idle == [at |-> "idle", round |-> 0]
Commits == {Idle} \cup [at : {"saveCert", "check", "saveClient"}, round : Round]

TypeOK ==
    /\ device \in [Round -> Device]
    /\ task \in [Round -> {"free", "started", "waiting", "woken", "answered", "gone"}]
    /\ known \in [Round -> 0..MaxChallenges]
    /\ pending \in [Id -> Entry]
    /\ challenges \in 0..MaxChallenges
    /\ mem \in StateData
    /\ disk \in Disk
    /\ commit \in Commits
    /\ acked \in SUBSET Device
    /\ vouched \in SUBSET Round
    /\ up \in BOOLEAN

\* The first start: PersistentState::new has saved an empty state.
Init ==
    /\ device \in [Round -> Device]
    /\ task = [r \in Round |-> "free"]
    /\ known = [r \in Round |-> 0]
    /\ pending = [i \in Id |-> NoEntry]
    /\ challenges = 0
    /\ mem = Empty
    /\ disk = [file |-> "valid", data |-> Empty, cut |-> FALSE]
    /\ commit = Idle
    /\ acked = {} /\ vouched = {}
    /\ up = TRUE

-----------------------------------------------------------------------------
\* pending_clients can be locked.
Unlocked == up /\ commit.at = "idle"

IdOfRound(r) == IdOf[device[r]]
Sent(r) == task[r] # "free"

\* What the device of round r decrypts and encrypts is readable for the
\* server: the entry has its salt and its PIN.
SharesKey(r) ==
    LET entry == pending[IdOfRound(r)] IN entry.round = r /\ entry.key = r

-----------------------------------------------------------------------------
(* The requests.                                                           *)

\* Seeded fault: the entry of an earlier round is updated in place.
StartPairingKeepsKey(r) ==
    /\ Unlocked
    /\ task[r] = "free" /\ \A q \in Round : q < r => Sent(q)
    /\ task' = [task EXCEPT ![r] = "started"]
    /\ pending' = [pending EXCEPT ![IdOfRound(r)].round = r]
    /\ UNCHANGED <<device, known, challenges, mem, disk, commit, acked, vouched, up>>

\* getservercert: inserts a new PendingClient with a new Notify.
StartPairing(r) ==
    /\ Unlocked
    /\ task[r] = "free" /\ \A q \in Round : q < r => Sent(q)
    /\ task' = [task EXCEPT ![r] = "started"]
    /\ pending' = [pending EXCEPT ![IdOfRound(r)] = [NoEntry EXCEPT !.round = r]]
    /\ UNCHANGED <<device, known, challenges, mem, disk, commit, acked, vouched, up>>

\* The request reaches pin_notifier.notified().
WaitForPin(r) ==
    /\ up /\ task[r] = "started"
    /\ task' = [task EXCEPT ![r] = "waiting"]
    /\ UNCHANGED <<device, known, pending, challenges, mem, disk, commit, acked, vouched, up>>

\* The woken request answers with the server's certificate.
AnswerServerCert(r) ==
    /\ up /\ task[r] = "woken"
    /\ task' = [task EXCEPT ![r] = "answered"]
    /\ UNCHANGED <<device, known, pending, challenges, mem, disk, commit, acked, vouched, up>>

\* The client drops its connection, and hyper the request.
Disconnect(r) ==
    /\ up /\ task[r] \in {"started", "waiting", "woken"}
    /\ task' = [task EXCEPT ![r] = "gone"]
    /\ UNCHANGED <<device, known, pending, challenges, mem, disk, commit, acked, vouched, up>>

\* /submit-pin: notify_waiters() wakes a request that waits, and stores
\* nothing for one that does not yet.
RegisterPin(i, pin) ==
    LET r == pending[i].round IN
    /\ Unlocked
    /\ r # 0
    /\ "late" \in Disruptions \/ \A q \in Round : task[q] # "started"
    /\ pending' = [pending EXCEPT ![i].key = pin]
    /\ task' = [task EXCEPT ![r] = IF @ = "waiting" THEN "woken" ELSE @]
    /\ vouched' = vouched \cup ({r} \cap {pin})
    /\ UNCHANGED <<device, known, challenges, mem, disk, commit, acked, up>>

\* clientchallenge: a new server secret and challenge; the device can decrypt
\* the reply if it shares the key.
ClientChallenge(r) ==
    LET i == IdOfRound(r) IN
    /\ Unlocked /\ Sent(r)
    /\ pending[i].round # 0 /\ pending[i].key # 0
    /\ challenges < MaxChallenges
    /\ challenges' = challenges + 1
    /\ pending' = [pending EXCEPT ![i].challenge = challenges + 1]
    /\ known' = [known EXCEPT ![r] = IF SharesKey(r) THEN challenges + 1 ELSE 0]
    /\ UNCHANGED <<device, task, mem, disk, commit, acked, vouched, up>>

\* serverchallengeresp: the device's hash over the challenge it knows, its
\* certificate and its secret.  It is stored before server_secret is looked at.
ServerChallengeResponse(r) ==
    LET i == IdOfRound(r) IN
    /\ Unlocked /\ Sent(r)
    /\ pending[i].round # 0 /\ pending[i].key # 0
    /\ pending' = [pending EXCEPT ![i].by = r,
                                  ![i].over = IF SharesKey(r) THEN known[r] ELSE 0]
    /\ UNCHANGED <<requestVars, challenges, mem, disk, commit, acked, vouched, up>>

-----------------------------------------------------------------------------
(* clientpairingsecret: the lock on pending_clients is held to the end.    *)

\* Seeded fault: only the signature is verified.
VerifySignatureOnly(r) ==
    device[pending[IdOfRound(r)].round] = device[r]

\* The hash is the one of this round's secret over the last challenge, and
\* the signature is by the key of the entry's certificate.
VerifyPairingSecret(r) ==
    LET entry == pending[IdOfRound(r)] IN
    /\ entry.by = r
    /\ entry.challenge # 0 /\ entry.over = entry.challenge
    /\ device[entry.round] = device[r]

\* Seeded fault: the certificate is not added.
CheckSecretWithoutCert(r) ==
    /\ Unlocked /\ Sent(r)
    /\ pending[IdOfRound(r)].round # 0 /\ VerifyPairingSecret(r)
    /\ commit' = [at |-> "check", round |-> r]
    /\ UNCHANGED <<requestVars, pending, challenges, mem, disk, acked, vouched, up>>

\* add_paired_cert inserts, and saves only what is new in memory.
CheckSecret(r) ==
    /\ Unlocked /\ Sent(r)
    /\ pending[IdOfRound(r)].round # 0 /\ VerifyPairingSecret(r)
    /\ mem' = [mem EXCEPT !.certs = @ \cup {device[r]}]
    /\ commit' = [at |-> IF device[r] \in mem.certs THEN "check" ELSE "saveCert",
                  round |-> r]
    /\ UNCHANGED <<requestVars, pending, challenges, disk, acked, vouched, up>>

\* What follows a save: the check of the client id, or the answer.
SaveReturns ==
    IF commit.at = "saveCert"
    THEN commit' = [commit EXCEPT !.at = "check"] /\ UNCHANGED acked
    ELSE commit' = Idle /\ acked' = acked \cup {device[commit.round]}

\* Seeded fault: the answer does not wait for the file.
SaveLater ==
    /\ up /\ commit.at \in {"saveCert", "saveClient"}
    /\ SaveReturns
    /\ UNCHANGED <<requestVars, pending, challenges, mem, disk, vouched, up>>

\* save(): the whole state is written.
Save ==
    /\ up /\ commit.at \in {"saveCert", "saveClient"}
    /\ disk' = [disk EXCEPT !.file = "valid", !.data = mem]
    /\ SaveReturns
    /\ UNCHANGED <<requestVars, pending, challenges, mem, vouched, up>>

\* The request fails with what it inserted still in memory.
SaveFails ==
    /\ up /\ commit.at \in {"saveCert", "saveClient"}
    /\ "save" \in Disruptions
    /\ \/ UNCHANGED disk
       \/ "torn" \in Disruptions /\ disk' \in CutShort(mem)
    /\ commit' = Idle
    /\ UNCHANGED <<requestVars, pending, challenges, mem, acked, vouched, up>>

\* has_client and add_client: a known id is answered at once.
AddClient ==
    LET i == IdOfRound(commit.round) IN
    /\ up /\ commit.at = "check"
    /\ IF i \in mem.clients
       THEN /\ commit' = Idle
            /\ acked' = acked \cup {device[commit.round]}
            /\ UNCHANGED mem
       ELSE /\ commit' = [commit EXCEPT !.at = "saveClient"]
            /\ mem' = [mem EXCEPT !.clients = @ \cup {i}]
            /\ UNCHANGED acked
    /\ UNCHANGED <<requestVars, pending, challenges, disk, vouched, up>>

-----------------------------------------------------------------------------
(* The end of the process and its restart.                                 *)

\* Everything in memory is lost; a save may be cut short.
Crash ==
    /\ "crash" \in Disruptions
    /\ up
    /\ up' = FALSE
    /\ task' = [r \in Round |-> IF Sent(r) THEN "gone" ELSE "free"]
    /\ pending' = [i \in Id |-> NoEntry]
    /\ mem' = Empty /\ commit' = Idle
    /\ \/ UNCHANGED disk
       \/ /\ "torn" \in Disruptions /\ commit.at \in {"saveCert", "saveClient"}
          /\ disk' \in CutShort(mem)
    /\ UNCHANGED <<device, known, challenges, acked, vouched>>

\* PersistentState::new: a file that does not parse ends the start; what was
\* loaded is saved again.
Restart ==
    /\ ~up /\ disk.file = "valid"
    /\ \/ up' = TRUE /\ mem' = disk.data /\ UNCHANGED disk
       \/ "torn" \in Disruptions /\ disk' \in CutShort(disk.data) /\ UNCHANGED <<mem, up>>
    /\ UNCHANGED <<requestVars, pending, challenges, commit, acked, vouched>>

-----------------------------------------------------------------------------
Next ==
    \/ \E r \in Round :
          \/ StartPairing(r) \/ WaitForPin(r) \/ AnswerServerCert(r) \/ Disconnect(r)
          \/ ClientChallenge(r) \/ ServerChallengeResponse(r) \/ CheckSecret(r)
    \/ \E i \in Id, pin \in Pin : RegisterPin(i, pin)
    \/ Save \/ SaveFails \/ AddClient
    \/ Crash \/ Restart

Safe == Init /\ [][Next]_vars

\* A request that can go on does.
Fairness == \A r \in Round : WF_vars(WaitForPin(r)) /\ WF_vars(AnswerServerCert(r))

Spec == Safe /\ Fairness
-----------------------------------------------------------------------------
(* Properties.                                                             *)

\* A certificate is paired only for a device whose own PIN the user submitted
\* in the round of that device, whatever other devices of the same id sent in
\* between, and whatever was persisted and loaded again.
CertMeansOwnPin ==
    mem.certs \cup disk.data.certs \subseteq {device[r] : r \in vouched}

\* The certificate is saved before the client id: no crash and no failed save that
\* leaves the file whole leaves an id that /serverinfo reports as paired without a
\* certificate that the other requests accept.  Once a save has been cut short nothing
\* is promised: a file that ends after its clients loads without their certificates.
ClientsHaveCert == disk.cut \/
    \A i \in disk.data.clients : \E d \in disk.data.certs : IdOf[d] = i

\* A device that was told it is paired is in the file: it stays paired after
\* a restart.
AckedIsDurable == \A d \in acked : disk.file = "valid" /\ d \in disk.data.certs

\* The submitted PIN wakes the getservercert request that waits for it.
PinAnswers ==
    \A r \in Round :
        (/\ task[r] \in {"started", "waiting", "woken"}
         /\ \E i \in Id : pending[i].round = r /\ pending[i].key # 0)
        ~> task[r] \in {"answered", "gone"}
=============================================================================
