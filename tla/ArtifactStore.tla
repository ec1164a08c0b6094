---------------------------- MODULE ArtifactStore ----------------------------
(***************************************************************************)
(* The artifact store of the daemon (src/src/daemon/artifacts/store.ts):   *)
(* screenshots and large results are files, an index file lists them, and  *)
(* one promise chain serialises the operations. Every file operation can   *)
(* fail, and the daemon can stop between any two of them.                  *)
(*                                                                         *)
(* An identifier is the position of the artifact in the order of creation, *)
(* which is the order of createdAt; artifacts expire in that order.        *)
(***************************************************************************)
EXTENDS Naturals, Sequences, FiniteSets, FiniteSetsExt

CONSTANTS
    Owners,           \* browser sessions that own artifacts
    Blobs,            \* contents: a kind, a MIME type and a hash
    BlobSize,         \* size of each content
    OwnerCount, OwnerBytes, TotalCount, TotalBytes,   \* ArtifactStoreLimits
    MaxArtifacts,     \* bound: identifiers used
    MaxStops,         \* bound: stops of the daemon
    LateFailure       \* whether chmod of the index can fail after its rename

ASSUME ArtifactAssumption ==
    /\ BlobSize \in [Blobs -> Nat \ {0}]
    /\ {OwnerCount, OwnerBytes, TotalCount, TotalBytes} \subseteq Nat \ {0}
    /\ OwnerCount <= TotalCount /\ OwnerBytes <= TotalBytes
    /\ MaxArtifacts \in Nat /\ MaxStops \in Nat /\ LateFailure \in BOOLEAN

VARIABLES
    made,       \* owner and content of the identifiers used so far
    outdated,   \* identifiers whose expiresAt has passed
    files,      \* identifiers with a file under objects/
    index,      \* identifiers in index.json
    artifacts,  \* this.artifacts
    loaded,     \* this.loaded
    job,        \* the operation at the head of the chain
    given,      \* identifiers a caller has a reference to
    retired,    \* identifiers that were removed with an index saved
    stops

artifactVars == <<made, outdated, files, index, artifacts, loaded, job, given, retired, stops>>

Ids  == 1..Len(made)
Rest == [at |-> "rest"]

ArtifactInit ==
    /\ made = <<>> /\ outdated = {} /\ files = {} /\ index = {} /\ artifacts = {}
    /\ loaded = FALSE /\ job = Rest /\ given = {} /\ retired = {} /\ stops = 0

----------------------------------------------------------------------------

Bytes(ids) == MapThenSumSet(LAMBDA i : BlobSize[made[i].blob], ids)

\* The newest artifacts that fit into a budget.
Fitting(ids, count, bytes) ==
    {i \in ids : LET newer == {j \in ids : j >= i}
                 IN  Cardinality(newer) <= count /\ Bytes(newer) <= bytes}

\* selectBudgetEvictions: first the budget of each owner, then the total.
Evictions(ids) ==
    LET owned == UNION {Fitting({i \in ids : made[i].owner = o}, OwnerCount, OwnerBytes) : o \in Owners}
    IN  ids \ Fitting(owned, TotalCount, TotalBytes)

\* persistIndex of the identifiers in memory: saved, or failed before or after
\* the rename.
IndexSaved    == index' = artifacts /\ retired' = retired \cup job.removed
IndexFailed   == UNCHANGED <<index, retired>> \/ (LateFailure /\ index' = artifacts /\ UNCHANGED retired)

----------------------------------------------------------------------------

\* The next operation of the chain starts: a put of a content (size within
\* maxArtifactBytes), or a read, list or cleanup, which differ in their answer.
BeginJob(want) ==
    /\ job = Rest
    /\ IF loaded
       THEN job' = [at |-> "clean", want |-> want]
       ELSE job' = [at |-> "load", want |-> want]
    /\ UNCHANGED <<made, outdated, files, index, artifacts, loaded, given, retired, stops>>

\* ensureLoaded. A missing index is the empty one.
LoadIndex ==
    /\ job.at = "load"
    /\ loaded' = TRUE /\ artifacts' = index
    /\ job' = [job EXCEPT !.at = "clean"]
    /\ UNCHANGED <<made, outdated, files, index, given, retired, stops>>

\* cleanupInternal up to the save of the index.
Clean ==
    /\ job.at = "clean"
    /\ LET removed == (artifacts \cap outdated) \cup Evictions(artifacts \ outdated)
       IN  IF removed = {}
           THEN /\ job' = [job EXCEPT !.at = "cleaned"]
                /\ UNCHANGED artifacts
           ELSE /\ artifacts' = artifacts \ removed
                /\ job' = [at |-> "saving", want |-> job.want, removed |-> removed, new |-> {}]
    /\ UNCHANGED <<made, outdated, files, index, loaded, given, retired, stops>>

\* The put after its cleanup: a live duplicate is returned, otherwise the file is
\* written; writing may fail and may leave a file nobody refers to.
WriteFile ==
    /\ job.at = "cleaned" /\ job.want # {}
    /\ LET twins == {i \in artifacts \ outdated : made[i] \in job.want}
           id    == Len(made) + 1
       IN  IF twins # {}
           THEN /\ job' = Rest /\ given' = given \cup twins
                /\ UNCHANGED <<made, files, artifacts>>
           ELSE /\ Len(made) < MaxArtifacts
                /\ \E want \in job.want : made' = Append(made, want)
                /\ UNCHANGED given
                /\ \/ /\ files' = files \cup {id}
                      /\ artifacts' = artifacts \cup {id}
                      /\ job' = [at |-> "evict", want |-> job.want, removed |-> {}, new |-> {id}]
                   \/ /\ files' \in {files, files \cup {id}}
                      /\ job' = Rest
                      /\ UNCHANGED artifacts
    /\ UNCHANGED <<outdated, index, loaded, retired, stops>>

\* An operation other than a put answers: a read opens the file of the entry.
Answer ==
    /\ job.at = "cleaned" /\ job.want = {}
    /\ job' = Rest
    /\ UNCHANGED <<made, outdated, files, index, artifacts, loaded, given, retired, stops>>

\* Mutation: the files that make room are deleted before the index is saved.
EvictFiles ==
    /\ job.at = "evict"
    /\ job' = [job EXCEPT !.at = "saving", !.removed = Evictions(artifacts)]
    /\ artifacts' = artifacts \ Evictions(artifacts)
    /\ files' = files \ Evictions(artifacts)
    /\ UNCHANGED <<made, outdated, index, loaded, given, retired, stops>>

Evict ==
    /\ job.at = "evict"
    /\ job' = [job EXCEPT !.at = "saving", !.removed = Evictions(artifacts)]
    /\ artifacts' = artifacts \ Evictions(artifacts)
    /\ UNCHANGED <<made, outdated, files, index, loaded, given, retired, stops>>

SaveIndex ==
    /\ job.at = "saving"
    /\ IndexSaved
    /\ job' = [job EXCEPT !.at = "deleting"]
    /\ UNCHANGED <<made, outdated, files, artifacts, loaded, given, stops>>

\* Mutation: what had to make room is not put back.
RolledBackNew == artifacts \ job.new

\* What is in memory after an index could not be saved.
RolledBack == (artifacts \ job.new) \cup (job.removed \ job.new)

\* The index cannot be saved: memory is rolled back, the new file is deleted
\* when that succeeds, and the operation fails.
SaveFails ==
    /\ job.at = "saving"
    /\ IndexFailed
    /\ artifacts' = RolledBack
    /\ files' \in {files, files \ job.new}
    /\ job' = Rest
    /\ UNCHANGED <<made, outdated, loaded, given, stops>>

\* deleteArtifactFiles: one file after the other; a failure is ignored.
DeleteFile ==
    /\ job.at = "deleting"
    /\ IF job.removed # {}
       THEN LET i == Min(job.removed)
            IN  /\ files' \in {files, files \ {i}}
                /\ job' = [job EXCEPT !.removed = @ \ {i}]
                /\ UNCHANGED given
       ELSE /\ job' = IF job.new = {} THEN [at |-> "cleaned", want |-> job.want] ELSE Rest
            /\ given' = given \cup (job.new \cap artifacts)
            /\ UNCHANGED files
    /\ UNCHANGED <<made, outdated, index, artifacts, loaded, retired, stops>>

\* The oldest artifact that is not outdated expires.
PassTime ==
    /\ \E i \in Ids \ outdated :
        /\ \A j \in Ids \ outdated : i <= j
        /\ outdated' = outdated \cup {i}
    /\ UNCHANGED <<made, files, index, artifacts, loaded, job, given, retired, stops>>

\* The daemon stops and another one opens the directory.
StopDaemon ==
    /\ stops < MaxStops
    /\ stops' = stops + 1
    /\ artifacts' = {} /\ loaded' = FALSE /\ job' = Rest
    /\ UNCHANGED <<made, outdated, files, index, given, retired>>

\* A put, or an operation that stores nothing.
Wants == {{}} \cup {{want} : want \in [owner : Owners, blob : Blobs]}

ArtifactNext ==
    \/ \E want \in Wants : BeginJob(want)
    \/ LoadIndex \/ Clean \/ WriteFile \/ Answer \/ Evict \/ SaveIndex \/ SaveFails
    \/ DeleteFile \/ PassTime \/ StopDaemon

ArtifactSpec == ArtifactInit /\ [][ArtifactNext]_artifactVars

----------------------------------------------------------------------------

ArtifactTypeOK ==
    /\ \A i \in Ids : made[i] \in [owner : Owners, blob : Blobs]
    /\ outdated \subseteq Ids /\ files \subseteq Ids /\ index \subseteq Ids
    /\ artifacts \subseteq Ids /\ given \subseteq Ids /\ retired \subseteq Ids
    /\ loaded \in BOOLEAN /\ stops \in 0..MaxStops

\* Every artifact of the index has its file, at every moment the daemon can
\* stop: the file is written before the index that lists it and deleted after
\* the index that does not (putBytesInternal, cleanupInternal).
IndexHasFiles == index \subseteq files

\* An artifact a caller was given stays in the index and readable until an index
\* without it was saved because it expired or had to make room: neither a failed
\* save nor a restart loses it.
GivenUntilRetired == given \subseteq (index \cap files) \cup retired

\* Both: what the index lists can be read, and what was given stays listed.
ArtifactsKept == IndexHasFiles /\ GivenUntilRetired

=============================================================================
