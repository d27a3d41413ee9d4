----------------------------- MODULE FileService -----------------------------
(***************************************************************************)
(* What LOAD and SAVE promise to the C64, without packets, blocks or       *)
(* buffers: a LOAD delivers one version of one file from its first byte    *)
(* on, and marks its last byte, and only that, with EOI; a SAVE replaces   *)
(* the file by a growing prefix of what the C64 gives. Either may fail,    *)
(* leaving what has been delivered or stored so far.                       *)
(***************************************************************************)
EXTENDS Naturals, Sequences

CONSTANTS
    Name, Octet,
    NoFile,     \* no file of that name
    Stale,      \* the one byte delivered for an empty file
    Jobs        \* [name, data] records that may be saved

VARIABLES
    files,      \* what has been stored under each name
    dirty,      \* names whose last SAVE the server has not completed
    opened,     \* the version of a file that is being delivered
    job, got, outcome

vars == <<files, dirty, opened, job, got, outcome>>

Init ==
    /\ files \in [Name -> Seq(Octet) \cup {NoFile}]
    /\ dirty = {}
    /\ opened \in [name : Name, data : {<<>>}]
    /\ job = [cmd |-> "none"]
    /\ got = <<>>
    /\ outcome = "none"

Prefix(s, m) == SubSeq(s, 1, m)

Load(n) ==
    /\ outcome # "busy"
    /\ job' = [cmd |-> "load", name |-> n]
    /\ got' = <<>>
    /\ outcome' \in {"busy", "error"}
    /\ UNCHANGED <<files, dirty, opened>>

(* A file whose SAVE has not been completed may be seen in part. *)
Open ==
    /\ job.cmd = "load"
    /\ got = <<>>
    /\ files[job.name] # NoFile
    /\ \E m \in 0 .. Len(files[job.name]) :
         /\ job.name \notin dirty => m = Len(files[job.name])
         /\ opened' = [name |-> job.name, data |-> Prefix(files[job.name], m)]
    /\ UNCHANGED <<files, dirty, job, got, outcome>>

Deliver ==
    /\ job.cmd = "load"
    /\ outcome = "busy"
    /\ opened.name = job.name
    /\ Len(got) < Len(opened.data)
    /\ \E m \in Len(got) .. Len(opened.data) - 1 : got' = Prefix(opened.data, m)
    /\ UNCHANGED <<files, dirty, opened, job, outcome>>

EndLoad ==
    /\ job.cmd = "load"
    /\ outcome = "busy"
    /\ opened.name = job.name
    /\ got' = IF opened.data = <<>> THEN <<Stale>> ELSE opened.data
    /\ outcome' = "eoi"
    /\ UNCHANGED <<files, dirty, opened, job>>

Save(j) ==
    /\ outcome # "busy"
    /\ job' = [cmd |-> "save", name |-> j.name, data |-> j.data]
    /\ got' = <<>>
    /\ outcome' = "busy"
    /\ UNCHANGED <<files, dirty, opened>>

(* Whatever was stored under the name is gone before the first byte of the *)
(* new file is stored.                                                     *)
Replace ==
    /\ job.cmd = "save"
    /\ files' = [files EXCEPT ![job.name] = <<>>]
    /\ dirty' = dirty \ {job.name}
    /\ opened' = [name |-> job.name, data |-> <<>>]
    /\ UNCHANGED <<job, got, outcome>>

Store ==
    /\ job.cmd = "save"
    /\ files[job.name] # NoFile
    /\ \E m \in Len(files[job.name]) .. Len(job.data) :
         /\ files[job.name] = Prefix(job.data, Len(files[job.name]))
         /\ files' = [files EXCEPT ![job.name] = Prefix(job.data, m)]
    /\ dirty' \in {dirty \cup {job.name}, dirty \ {job.name}}
    /\ UNCHANGED <<opened, job, got, outcome>>

Complete ==
    /\ \E n \in dirty : dirty' = dirty \ {n}
    /\ UNCHANGED <<files, opened, job, got, outcome>>

EndSave ==
    /\ job.cmd = "save"
    /\ outcome = "busy"
    /\ outcome' = "saved"
    /\ UNCHANGED <<files, dirty, opened, job, got>>

Fail ==
    /\ outcome = "busy"
    /\ outcome' \in {"error", "aborted"}
    /\ UNCHANGED <<files, dirty, opened, job, got>>

Next ==
    \/ \E n \in Name : Load(n)
    \/ \E j \in Jobs : Save(j)
    \/ Open \/ Deliver \/ EndLoad
    \/ Replace \/ Store \/ Complete \/ EndSave
    \/ Fail

Spec == Init /\ [][Next]_vars
=============================================================================
