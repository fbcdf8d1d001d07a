-------------------------------- MODULE Kinds --------------------------------
(***************************************************************************)
(* The kinds a user works on: their directories below the work directory,  *)
(* the local repository of digi push and pull, the images digi build       *)
(* makes, and the directory below /tmp that digi run and digi build work   *)
(* in.  That directory is named after the kind alone, and every make       *)
(* removes it at its beginning and at its end.                             *)
(***************************************************************************)
EXTENDS DigiHome

CONSTANT User   \* whoever may be in a build directory

VARIABLES
    profile,  \* the kinds with a directory
    archive,  \* the kinds in the local repository
    image,    \* by kind and registry, the image
    dir       \* by kind, the build directory: content, who is in it, run.yaml

kinds == <<profile, archive, image, dir>>

Registry == Setting \cup {Nil}
NoDir == [is |-> "gone", users |-> {}, yaml |-> Nil, cr |-> FALSE]

KindsTypeOK ==
    /\ profile \subseteq Kind /\ archive \subseteq Kind
    /\ image \in [Kind \X Registry -> {"none", "whole", "torn"}]
    /\ dir \in [Kind -> [is : {"gone", "partial", "bare", "whole"},
                         users : SUBSET User, yaml : Name \cup {Nil}, cr : BOOLEAN]]
    /\ \A k \in Kind : dir[k].is = "gone" => dir[k].users = {}

\* GetKindFromProfile finds the kind's model.yaml.
GetKindFromProfile(k) == k \in profile

-----------------------------------------------------------------------------
(* The build directory.                                                    *)

\* prepare-build-dir.
Emptied(k) == [dir EXCEPT ![k] = [NoDir EXCEPT !.is = "partial"]]

\* prepare-build and prepare-deploy: the driver's files, then the kind's over
\* them if it still has a directory.
Filled(k) ==
    [dir EXCEPT ![k].is = IF k \in profile \/ @ = "whole" THEN "whole" ELSE "bare"]

\* ... when a part of that fails.
PartlyFilled(k) ==
    {dir, Filled(k), [dir EXCEPT ![k].is = IF @ = "whole" THEN "whole" ELSE "bare"]}

Workable(k) == dir[k].is \in {"bare", "whole"}

\* u goes to the directory and writes run.yaml, for digi n or empty; the model
\* is in it if it came with the kind's files.
Rendered(k, u, n) ==
    [dir EXCEPT ![k] = [is |-> @.is, users |-> @.users \cup {u}, yaml |-> n,
                        cr |-> @.is = "whole" /\ n # Nil]]

\* mutant: whoever is in the directory stays there.
RemovedUnder(k) == [dir EXCEPT ![k].is = "gone"]

Removed(k) == [dir EXCEPT ![k] = NoDir]

-----------------------------------------------------------------------------
(* Kinds.                                                                  *)

\* docker build and push: without the directory the image stays as it was,
\* and a part of it makes a part of an image, if any.
Image(k, r) ==
    LET built == IF Workable(k) /\ k \in profile THEN {"whole"}
                 ELSE IF dir[k].is = "gone" THEN {image[<<k, r>>]}
                 ELSE {"torn", image[<<k, r>>]}
    IN  /\ image' \in {[image EXCEPT ![<<k, r>>] = i] : i \in built}
        /\ dir' = Removed(k)
        /\ UNCHANGED <<profile, archive>>

RemoveKind(k) == profile' = profile \ {k} /\ UNCHANGED <<archive, image, dir>>

PushKind(k) ==
    /\ archive' = IF k \in profile THEN archive \cup {k} ELSE archive
    /\ UNCHANGED <<profile, image, dir>>

PullKind(k) ==
    /\ profile' = IF k \in archive THEN profile \cup {k} ELSE profile
    /\ UNCHANGED <<archive, image, dir>>

\* repo.Pull, from GitHub.
PullRemote(k) == profile' = profile \cup {k} /\ UNCHANGED <<archive, image, dir>>
=============================================================================
