---------------------------- MODULE MountClient -----------------------------
(***************************************************************************)
(* digi space mount: api/mount/mount.go and api/client/client.go.  The     *)
(* model of the target is read once, every source is entered, removed,     *)
(* yielded or activated in it, and it is sent back as it was read, again   *)
(* after an error.  A conflict stays a conflict, however often it is       *)
(* tried; the error of the last try is not returned (client.go:120 hides   *)
(* it), so the call reports success in any case.                           *)
(***************************************************************************)
EXTENDS SpaceStore

CONSTANT NumRetry

VARIABLE call  \* by process, the call under way

NoCall == [target |-> Nothing, srcs |-> {}, mounts |-> <<>>, tries |-> 0]

ClientTypeOK ==
    \A c \in Client :
        /\ call[c].target \in Digi \cup {Nothing} /\ call[c].srcs \subseteq Digi
        /\ call[c] # NoCall => call[c].tries \in 1 .. NumRetry + 1

Mounted(d, ks) == \A k \in ks : mounts[d][k] # "none"

\* Mounter.Do up to the update.  A source that is not mounted ends every
\* operation but MOUNT, whatever the other sources are.
DoMount(c, op, ks, d) ==
    /\ call[c] = NoCall /\ d \in alive
    /\ op = "MOUNT" \/ Mounted(d, ks)
    /\ call' = [call EXCEPT ![c] =
          [target |-> d, srcs |-> ks, tries |-> NumRetry + 1,
           mounts |-> [k \in Digi |->
              IF k \notin ks THEN mounts[d][k]
              ELSE CASE op = "UNMOUNT" -> "none"
                     [] op = "YIELD" -> "inactive"
                     [] OTHER -> "active"]]]
    /\ fresh' = [fresh EXCEPT ![c] = {d}]
    /\ UNCHANGED <<alive, attr, mounts, writer, objs, up, queue, caches, fails>>

\* mutant: a retry sends the old body with the version there is.
UpdateAnyVersion(c) ==
    /\ call[c] # NoCall /\ call[c].target \in alive
    /\ WriteMounts(c, call[c].target, call[c].mounts)
    /\ call' = [call EXCEPT ![c] = NoCall]
    /\ UNCHANGED <<objs, up, caches, fails>>

\* UpdateFromJson: a try that goes through ends the call.
Update(c) ==
    /\ call[c] # NoCall /\ call[c].target \in fresh[c] \cap alive
    /\ WriteMounts(c, call[c].target, call[c].mounts)
    /\ call' = [call EXCEPT ![c] = NoCall]
    /\ UNCHANGED <<objs, up, caches, fails>>

\* mutant: one try too many.
RetryOnceMore(c) == IF call[c].tries = 0 THEN NoCall ELSE [call[c] EXCEPT !.tries = @ - 1]

\* One try fewer.
Retry(c) == IF call[c].tries = 1 THEN NoCall ELSE [call[c] EXCEPT !.tries = @ - 1]

UpdateConflict(c) ==
    /\ call[c] # NoCall /\ call[c].target \notin fresh[c] \cap alive
    /\ call' = [call EXCEPT ![c] = Retry(c)]
    /\ UNCHANGED <<store, fails>>

\* The request fails, or is carried out and its answer lost.
UpdateFails(c) ==
    /\ call[c] # NoCall /\ MayFail
    /\ call' = [call EXCEPT ![c] = Retry(c)]
    /\ \/ UNCHANGED store
       \/ /\ call[c].target \in fresh[c] \cap alive
          /\ mounts' = [mounts EXCEPT ![call[c].target] = call[c].mounts]
          /\ fresh' = [r \in Reader |-> fresh[r] \ {call[c].target}]
          /\ queue' = Enqueued(call[c].target)
          /\ UNCHANGED <<alive, attr, writer, objs, up, caches>>

ClientStep(c) == Update(c) \/ UpdateConflict(c)
=============================================================================
