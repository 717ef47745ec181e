------------------------------- MODULE KeyFile -------------------------------
(***************************************************************************)
(* The private-key file of the authorization server: the start of a        *)
(* process validates it (validateKeyMaterials, src/internal/authapp/       *)
(* runtime_config.go) and then loads or creates it                         *)
(* (LoadOrCreateEd25519Signer, src/jwk/ed25519.go).  Processes that share  *)
(* the file are started, crash and are restarted at any point, and os calls*)
(* fail; os.WriteFile truncates the file before it writes.                 *)
(***************************************************************************)
CONSTANTS
    Processes,      \* processes that share the key file
    Keys,           \* the private keys that can be generated
    Missing,        \* there is no file
    Empty,          \* the file is truncated and not yet written
    None            \* no key

ASSUME KeyFileAssumption == /\ Missing \notin Keys /\ Empty \notin Keys /\ None \notin Keys
                            /\ Missing # Empty

VARIABLES
    alone,      \* the operator starts the processes one at a time
    file,       \* what the file holds: Missing, Empty or a key
    pc,         \* per process: "down", "validate", "load", "open", "write", "serve"
    key,        \* per process: the key it generated, and later serves with
    used,       \* keys generated so far
    served      \* history: keys some process has served with

vars == <<alone, file, pc, key, used, served>>

Init ==
    /\ alone \in BOOLEAN
    /\ file = Missing
    /\ pc = [p \in Processes |-> "down"]
    /\ key = [p \in Processes |-> None]
    /\ used = {}
    /\ served = {}

Starting(p) == pc[p] \in {"validate", "load", "open", "write"}

Goto(p, label) == pc' = [pc EXCEPT ![p] = label]

\* The process crashes, or its start fails with an error.
Down(p) ==
    /\ pc' = [pc EXCEPT ![p] = "down"]
    /\ key' = [key EXCEPT ![p] = None]

Serve(p, k) ==
    /\ pc' = [pc EXCEPT ![p] = "serve"]
    /\ key' = [key EXCEPT ![p] = k]
    /\ served' = served \cup {k}
-----------------------------------------------------------------------------
Start(p) ==
    /\ pc[p] = "down"
    /\ alone => \A q \in Processes : ~ Starting(q)
    /\ Goto(p, "validate")
    /\ UNCHANGED <<alone, file, key, used, served>>

\* validateKeyMaterials: a file that is not there is good, one without a key is not.
Validate(p) ==
    /\ pc[p] = "validate"
    /\ \/ file # Empty /\ Goto(p, "load") /\ UNCHANGED key
       \/ file = Empty /\ Down(p)
    /\ UNCHANGED <<alone, file, used, served>>

Generate(p) ==
    /\ \E k \in Keys \ used : /\ key' = [key EXCEPT ![p] = k]
                              /\ used' = used \cup {k}
    /\ Goto(p, "open")
    /\ UNCHANGED served

\* Mutant: a key is generated at every start.
LoadAlwaysGenerates(p) ==
    /\ pc[p] = "load"
    /\ Generate(p)
    /\ UNCHANGED <<alone, file>>

\* LoadOrCreateEd25519Signer reads the file again: it serves with the key in it,
\* gives up if there is none in it, and generates one if there is no file.
Load(p) ==
    /\ pc[p] = "load"
    /\ \/ /\ file \in Keys
          /\ Serve(p, file)
          /\ UNCHANGED used
       \/ /\ file = Empty
          /\ Down(p)
          /\ UNCHANGED <<used, served>>
       \/ file = Missing /\ Generate(p)
    /\ UNCHANGED <<alone, file>>

\* os.WriteFile opens the file: it is created, or truncated whatever it holds.
Open(p) ==
    /\ pc[p] = "open"
    /\ file' = Empty
    /\ Goto(p, "write")
    /\ UNCHANGED <<alone, key, used, served>>

\* Mutant: the signer is returned although the key could not be written.
WriteOrNot(p) ==
    /\ pc[p] = "write"
    /\ file' \in {file, key[p]}
    /\ Serve(p, key[p])
    /\ UNCHANGED <<alone, used>>

\* ... and writes the key.
Write(p) ==
    /\ pc[p] = "write"
    /\ file' = key[p]
    /\ Serve(p, key[p])
    /\ UNCHANGED <<alone, used>>

\* A read, mkdir, open or write fails, or the process is killed; a write that
\* fails leaves the file as the open left it.
Crash(p) ==
    /\ pc[p] # "down"
    /\ Down(p)
    /\ UNCHANGED <<alone, file, used, served>>

Next == \E p \in Processes : \/ Start(p) \/ Validate(p) \/ Load(p)
                             \/ Open(p) \/ Write(p) \/ Crash(p)

Spec == Init /\ [][Next]_vars
-----------------------------------------------------------------------------
(* Properties *)

\* The file holds nothing, part of a key or a key.
TypeOK ==
    /\ alone \in BOOLEAN
    /\ file \in Keys \cup {Missing, Empty}
    /\ pc \in [Processes -> {"down", "validate", "load", "open", "write", "serve"}]
    /\ key \in [Processes -> Keys \cup {None}]
    /\ used \subseteq Keys
    /\ served \subseteq used

\* One key for the life of the file: when processes are started one at a time,
\* all of them, through every crash and restart, serve with the key in the file.
\* A start that crashed while it wrote makes later starts fail; it never makes
\* one of them replace a key that verifiers already know.
OneKeyServed ==
    alone => /\ \A j, k \in served : j = k
             /\ \A p \in Processes : pc[p] = "serve" => key[p] = file

\* Processes started at the same time may serve with different keys under one kid;
\* nothing in the code forbids it.  It goes no further: once the file has a key and
\* no start is about to write, the file keeps that key for good, and no process
\* begins to serve with another one, so that restarting the strays ends it.
Settled == file \in Keys /\ \A p \in Processes : pc[p] \notin {"open", "write"}
Strays == {p \in Processes : pc[p] = "serve" /\ key[p] # file}
SettledForGood == [][Settled => Settled' /\ file' = file /\ Strays' \subseteq Strays]_vars
=============================================================================
