-------------------------------- MODULE Keys --------------------------------
(***************************************************************************)
(* The key pair of the mock channel (aids_mock/rsa.py): two files that     *)
(* ensure_keypair() reads whenever a callback is signed, and that whoever  *)
(* misses one of them writes, the private key first.  The call awaits      *)
(* nothing, so a process is in one at a time; the processes of the channel *)
(* share the files.  The merchant checks signatures with the public file.  *)
(***************************************************************************)
EXTENDS Naturals

CONSTANTS
    Workers,        \* processes of the channel
    MaxKeys,        \* bound: pairs generated
    MaxDeaths       \* bound: processes that die in the middle of a call

ASSUME KeysAssumption == MaxKeys \in Nat /\ MaxDeaths \in Nat

VARIABLES
    file,       \* file[n]: the pair whose key is in file n, Missing or Empty
    worker,     \* worker[p]: how far the call p is in has come, and its pair
    madeKeys,   \* pairs generated
    signed,     \* pairs with which a callback was signed
    together,   \* two calls generated a pair at once
    cut,        \* a process died while it wrote the public file
    deaths

keysVars == <<file, worker, madeKeys, signed, together, cut, deaths>>

\* Pairs are numbered from 1; a number no pair gets stands for a file that
\* write_bytes() has opened, and emptied, and not yet written.
Missing == 0
Empty == MaxKeys + 1

NoCall == [at |-> "idle", pair |-> Missing]

KeysInit ==
    /\ file = [n \in {"private", "public"} |-> Missing]
    /\ worker = [p \in Workers |-> NoCall]
    /\ madeKeys = 0
    /\ signed = {}
    /\ together = FALSE
    /\ cut = FALSE
    /\ deaths = 0

\* Mutation: only the private file is looked for.
BothThere_PrivateOnly == file["private"] # Missing

BothThere == file["private"] # Missing /\ file["public"] # Missing

\* sign_rsa2() raises for a file without a key.
SignWith(k) == signed' = signed \union ({k} \ {Empty})

\* Both files are there: the private one is read.
Load(p) ==
    /\ worker[p] = NoCall
    /\ BothThere
    /\ SignWith(file["private"])
    /\ UNCHANGED <<file, worker, madeKeys, together, cut, deaths>>

\* One is missing: a pair is generated.
Generate(p) ==
    /\ worker[p] = NoCall
    /\ ~BothThere
    /\ madeKeys < MaxKeys
    /\ madeKeys' = madeKeys + 1
    /\ worker' = [worker EXCEPT ![p] = [at |-> "generated", pair |-> madeKeys + 1]]
    /\ together' = (together \/ \E q \in Workers : worker[q] # NoCall)
    /\ UNCHANGED <<file, signed, cut, deaths>>

\* Path.write_bytes() opens the file, which empties it, and then writes it.
Open(p, n) ==
    /\ file' = [file EXCEPT ![n] = Empty]
    /\ worker' = [worker EXCEPT ![p].at = n]
    /\ UNCHANGED <<madeKeys, signed, together, cut, deaths>>

OpenPrivate(p) == worker[p].at = "generated" /\ Open(p, "private")

WritePrivate(p) ==
    /\ worker[p].at = "private"
    /\ file' = [file EXCEPT !["private"] = worker[p].pair]
    /\ worker' = [worker EXCEPT ![p].at = "half"]
    /\ UNCHANGED <<madeKeys, signed, together, cut, deaths>>

OpenPublic(p) == worker[p].at = "half" /\ Open(p, "public")

\* The call returns, and the caller signs with the pair it made.
WritePublic(p) ==
    /\ worker[p].at = "public"
    /\ file' = [file EXCEPT !["public"] = worker[p].pair]
    /\ SignWith(worker[p].pair)
    /\ worker' = [worker EXCEPT ![p] = NoCall]
    /\ UNCHANGED <<madeKeys, together, cut, deaths>>

\* A process dies in the middle of the call; another takes its place.
Die(p) ==
    /\ worker[p] # NoCall
    /\ deaths < MaxDeaths
    /\ deaths' = deaths + 1
    /\ cut' = (cut \/ worker[p].at = "public")
    /\ worker' = [worker EXCEPT ![p] = NoCall]
    /\ UNCHANGED <<file, madeKeys, signed, together>>

KeysNext ==
    \E p \in Workers : \/ Load(p) \/ Generate(p)
                       \/ OpenPrivate(p) \/ WritePrivate(p)
                       \/ OpenPublic(p) \/ WritePublic(p)
                       \/ Die(p)

KeysSpec == KeysInit /\ [][KeysNext]_keysVars

-----------------------------------------------------------------------------
(* Properties *)

\* Whatever the channel has signed, with whichever process, the merchant can
\* verify with the public file, or will when the write under way has ended; also
\* after a call that died between the two files.  Excepted are two calls that
\* generate at once, for nothing guards the files (rsa.py:29-53), and a death
\* while the public file is written: it stays empty, both files are there, and
\* no later call repairs it.
SignaturesVerify ==
    together \/ cut \/ \A k \in signed :
        \/ file["public"] = k
        \/ \E p \in Workers : worker[p] = [at |-> "public", pair |-> k]
=============================================================================
