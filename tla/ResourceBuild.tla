--------------------------- MODULE ResourceBuild ---------------------------
(***************************************************************************)
(* The build of the Glasgow resources, gateware/build_uart.py: several     *)
(* builders check the cache of one output directory, build a staged one    *)
(* beside it and put it in the output's place, while build.rs reads the    *)
(* output for a cargo build.  A builder may fail at any system call and    *)
(* may be killed between any two.                                          *)
(*                                                                         *)
(* A version stands for the contents of the inputs and for what a build of *)
(* them produces; a directory is the version of each of its artifacts and  *)
(* what its cache file says.  mkdtemp never returns a name twice, and a    *)
(* process id may be used again once its process is gone.                  *)
(***************************************************************************)
EXTENDS Naturals, FiniteSets

CONSTANTS
    Builders,      \* processes running main
    Revisions,     \* REVISIONS
    Versions,      \* the contents the inputs take
    Faults,        \* which failures of the environment may happen
    MaxRuns,       \* bound: builders started
    MaxFailures    \* bound: failures and kills

Missing == 0

ASSUME VersionAssumption == Versions \subseteq Nat \ {Missing}
ASSUME FaultAssumption   == Faults \subseteq {"build", "replace", "rmtree", "kill"}
ASSUME RevisionAssumption == Revisions # {}
ASSUME BoundAssumption   == MaxRuns \in Nat /\ MaxFailures \in Nat

Files   == Revisions \X {"json", "bit"}
Absent  == [art |-> "absent"]
NoCache == [digest |-> Missing, built |-> Missing]
Empty   == [art |-> [f \in Files |-> Missing], cache |-> NoCache]

VARIABLES
    inputs,        \* the version of the inputs now
    builder,       \* the local state of main in each builder
    output,        \* the output directory
    staged,        \* the builder's temporary directory
    backup,        \* the directory named after the builder's process id
    cargo,         \* where build.rs is
    pending,       \* revisions build.rs has yet to embed
    manifest,      \* the manifest it has read, until its bitstream is read
    embedded,      \* the versions of each embedded pair
    \* history
    runs,          \* builders started
    failures,      \* failures and kills
    mishaps,       \* what they and the rivals have done
    found,         \* the output of the beginning was "whole", "damaged" or "none"
    skewed,        \* digests of builds of other inputs
    orphan         \* a whole directory lies under a name no builder uses

dirVars   == <<output, staged, backup>>
cargoVars == <<cargo, pending, manifest, embedded>>
faultVars == <<failures, mishaps>>
history   == <<runs, faultVars, found, skewed, orphan>>
vars      == <<inputs, builder, dirVars, cargoVars, history>>

Whole(dir) == dir # Absent /\ \E v \in Versions : dir.art = [f \in Files |-> v]

\* A build of code c whose cache file says d; a checkout has no cache file.
Built(c, d) == [art |-> [f \in Files |-> c], cache |-> [digest |-> d, built |-> c]]
Checkouts == {[Built(v, v) EXCEPT !.cache = NoCache] : v \in Versions}
Builds    == {Built(v, v) : v \in Versions}
Damaged   == {[d EXCEPT !.art[f] = v] : d \in Builds, f \in Files, v \in Versions \cup {Missing}}
             \ Builds

\* A process that has ended has no locals: code is the version it imported,
\* digest is source_digest, todo what it has yet to look at, expected the
\* hashes of the cache file, read the versions of the artifacts it has hashed.
At(s) == [step |-> s, code |-> Missing, digest |-> Missing, todo |-> {},
          expected |-> Missing, read |-> {}]

Init ==
    /\ inputs \in Versions
    /\ builder = [p \in Builders |-> At("off")]
    /\ output \in Checkouts \cup Builds \cup Damaged \cup {Absent}
    /\ staged = [p \in Builders |-> Absent] /\ backup = staged
    /\ cargo = "off" /\ pending = {} /\ manifest = Missing
    /\ embedded = [r \in Revisions |-> <<Missing, Missing>>]
    /\ runs = 0 /\ failures = 0 /\ mishaps = {}
    /\ found = IF output = Absent THEN "none" ELSE IF Whole(output) THEN "whole" ELSE "damaged"
    /\ skewed = {} /\ orphan = FALSE

Ended == {"off", "reused", "built", "failed"}
Step(p) == builder[p].step
Goto(p, s) == builder' = [builder EXCEPT ![p].step = s]
Ends(p, s) == builder' = [builder EXCEPT ![p] = At(s)]

\* One of a set, in the order the code has fixed.
First(set) == CHOOSE x \in set : TRUE

\* A failure of the environment, and what it leads to.
Fails(f, m) == /\ f \in Faults /\ failures < MaxFailures /\ failures' = failures + 1
               /\ mishaps' = mishaps \cup m

\* An rmtree that fails has removed none of the files of p's directory or some.
HalfRemoved(p, dirs, dirsAfter) == dirsAfter \in {dirs, [dirs EXCEPT ![p] = Empty]}

-----------------------------------------------------------------------------
(* main, up to the staged directory. *)

\* The sources are edited.
Edit ==
    /\ inputs' \in {v \in Versions : v > inputs}
    /\ UNCHANGED <<builder, dirVars, cargoVars, history>>

\* Python imports the sources; what an earlier process left is no one's, unless
\* its process id has come back.
Start(p) ==
    /\ Step(p) \in Ended /\ runs < MaxRuns /\ runs' = runs + 1
    /\ builder' = [builder EXCEPT ![p] = [At("digest") EXCEPT !.code = inputs]]
    /\ staged' = [staged EXCEPT ![p] = Absent]
    /\ \/ UNCHANGED backup /\ orphan' = (orphan \/ Whole(staged[p]))
       \/ /\ backup[p] # Absent /\ backup' = [backup EXCEPT ![p] = Absent]
          /\ orphan' = (orphan \/ Whole(staged[p]) \/ Whole(backup[p]))
    /\ UNCHANGED <<inputs, output, cargoVars, faultVars, found, skewed>>

\* input_digest reads them again.
Digest(p) ==
    /\ Step(p) = "digest"
    /\ builder' = [builder EXCEPT ![p].step = "cache", ![p].digest = inputs]
    /\ UNCHANGED <<inputs, dirVars, cargoVars, history>>

\* cache_valid: the cache file ...
ReadCache(p) ==
    /\ Step(p) = "cache"
    /\ IF output # Absent /\ output.cache.digest = builder[p].digest
       THEN builder' = [builder EXCEPT ![p].step = "artifacts", ![p].todo = Files,
                                       ![p].expected = output.cache.built]
       ELSE Goto(p, "stage")
    /\ UNCHANGED <<inputs, dirVars, cargoVars, history>>

\* An artifact has been accepted or not; once all are, main returns.
Checked(p, f, good) ==
    LET rest == builder[p].todo \ {f}
        seen == builder[p].read \cup {output.art[f]}
    IN  IF ~good
        THEN builder' = [builder EXCEPT ![p].step = "stage", ![p].todo = {},
                                        ![p].expected = Missing, ![p].read = {}]
        ELSE IF rest # {}
        THEN builder' = [builder EXCEPT ![p].todo = rest, ![p].read = seen]
        ELSE builder' = [builder EXCEPT ![p] = [At("reused") EXCEPT
                                                   !.digest = builder[p].digest, !.read = seen]]

\* Mutant: an artifact that is there is a good one.
ReadArtifactExists(p) ==
    /\ Step(p) = "artifacts"
    /\ LET f == First(builder[p].todo)
       IN  Checked(p, f, output # Absent /\ output.art[f] # Missing)
    /\ UNCHANGED <<inputs, dirVars, cargoVars, history>>

\* ... then each artifact, which may lie in another directory by now.
ReadArtifact(p) ==
    /\ Step(p) = "artifacts"
    /\ LET f == First(builder[p].todo)
       IN  Checked(p, f, output # Absent /\ output.art[f] = builder[p].expected)
    /\ UNCHANGED <<inputs, dirVars, cargoVars, history>>

\* mkdtemp, outside the try.
Stage(p) ==
    /\ Step(p) = "stage"
    /\ \/ /\ builder' = [builder EXCEPT ![p].step = "build", ![p].todo = Revisions]
          /\ staged' = [staged EXCEPT ![p] = Empty] /\ UNCHANGED faultVars
       \/ Fails("build", {}) /\ Ends(p, "failed") /\ UNCHANGED staged
    /\ UNCHANGED <<inputs, output, backup, cargoVars, runs, found, skewed, orphan>>

-----------------------------------------------------------------------------
(* build_all *)

\* The bitstream and the manifest of revision r are written.
Written(p, r) ==
    /\ staged' = [staged EXCEPT ![p].art =
                     [f \in Files |-> IF f[1] = r THEN builder[p].code ELSE @[f]]]
    /\ builder' = [builder EXCEPT ![p].todo = @ \ {r}]

\* Mutant: a failed build goes on to replace the directory.
BuildRevisionSwallows(p) ==
    /\ Step(p) = "build" /\ builder[p].todo # {}
    /\ \/ Written(p, First(builder[p].todo)) /\ UNCHANGED faultVars
       \/ Fails("build", {}) /\ Goto(p, "clean_backup") /\ UNCHANGED staged
    /\ UNCHANGED <<inputs, output, backup, cargoVars, runs, found, skewed, orphan>>

BuildRevision(p) ==
    /\ Step(p) = "build" /\ builder[p].todo # {}
    /\ \/ Written(p, First(builder[p].todo)) /\ UNCHANGED faultVars
       \/ Fails("build", {}) /\ Goto(p, "cleanup") /\ UNCHANGED staged
    /\ UNCHANGED <<inputs, output, backup, cargoVars, runs, found, skewed, orphan>>

\* The cache file comes last.
WriteCache(p) ==
    LET code == builder[p].code
        digest == builder[p].digest
    IN  /\ Step(p) = "build" /\ builder[p].todo = {}
        /\ \/ /\ staged' = [staged EXCEPT ![p].cache = [digest |-> digest, built |-> code]]
              /\ Goto(p, "clean_backup") /\ UNCHANGED faultVars
              /\ skewed' = IF code = digest THEN skewed ELSE skewed \cup {digest}
           \/ Fails("build", {}) /\ Goto(p, "cleanup") /\ UNCHANGED <<staged, skewed>>
        /\ UNCHANGED <<inputs, output, backup, cargoVars, runs, found, orphan>>

-----------------------------------------------------------------------------
(* replace_directory *)

\* A backup of an earlier process with this id is removed.
CleanBackup(p) ==
    /\ Step(p) = "clean_backup"
    /\ \/ Goto(p, "look") /\ backup' = [backup EXCEPT ![p] = Absent] /\ UNCHANGED faultVars
       \/ /\ backup[p] # Absent /\ Fails("rmtree", {"unremoved"})
          /\ Goto(p, "cleanup") /\ HalfRemoved(p, backup, backup')
    /\ UNCHANGED <<inputs, output, staged, cargoVars, runs, found, skewed, orphan>>

\* output.exists() ...
Look(p) ==
    /\ Step(p) = "look"
    /\ Goto(p, IF output # Absent THEN "move" ELSE "install")
    /\ UNCHANGED <<inputs, dirVars, cargoVars, history>>

\* Mutant: the old directory is removed to make room.
MoveRemoves(p) ==
    /\ Step(p) = "move"
    /\ \/ output # Absent /\ Goto(p, "install") /\ output' = Absent
       \/ output = Absent /\ Goto(p, "cleanup") /\ UNCHANGED output
    /\ UNCHANGED <<inputs, staged, backup, cargoVars, history>>

\* ... and os.replace(output, backup), outside the try: another builder may
\* have taken the output in between.
Move(p) ==
    /\ Step(p) = "move"
    /\ \/ /\ output # Absent /\ Goto(p, "install") /\ UNCHANGED faultVars
          /\ backup' = [backup EXCEPT ![p] = output] /\ output' = Absent
       \/ /\ (output = Absent /\ UNCHANGED faultVars) \/ Fails("replace", {})
          /\ Goto(p, "cleanup") /\ UNCHANGED <<backup, output>>
    /\ UNCHANGED <<inputs, staged, cargoVars, runs, found, skewed, orphan>>

\* os.replace(staged, output), which does not replace a directory that another
\* builder has put there.
Install(p) ==
    /\ Step(p) = "install"
    /\ \/ /\ output = Absent /\ Goto(p, "discard") /\ UNCHANGED faultVars
          /\ output' = staged[p] /\ staged' = [staged EXCEPT ![p] = Absent]
       \/ /\ (output # Absent /\ UNCHANGED faultVars) \/ Fails("replace", {})
          /\ Goto(p, "rescue") /\ UNCHANGED <<output, staged>>
    /\ UNCHANGED <<inputs, backup, cargoVars, runs, found, skewed, orphan>>

\* Mutant: the exception is raised at once.
RescueForgets(p) ==
    /\ Step(p) = "rescue" /\ Goto(p, "cleanup")
    /\ UNCHANGED <<inputs, dirVars, cargoVars, history>>

\* The exception: is there a backup to put back?  A backup whose place another
\* builder has taken stays where it is.
Rescue(p) ==
    /\ Step(p) = "rescue"
    /\ \/ backup[p] = Absent /\ Goto(p, "cleanup") /\ UNCHANGED mishaps
       \/ /\ backup[p] # Absent /\ output = Absent
          /\ Goto(p, "restore") /\ UNCHANGED mishaps
       \/ /\ backup[p] # Absent /\ output # Absent
          /\ Goto(p, "cleanup") /\ mishaps' = mishaps \cup {"overtaken"}
    /\ UNCHANGED <<inputs, dirVars, cargoVars, runs, failures, found, skewed, orphan>>

\* os.replace(backup, output), inside the handler.
Restore(p) ==
    /\ Step(p) = "restore" /\ Goto(p, "cleanup")
    /\ \/ /\ output = Absent /\ output' = backup[p] /\ UNCHANGED faultVars
          /\ backup' = [backup EXCEPT ![p] = Absent]
       \/ /\ output = Absent /\ Fails("replace", {"unrestored"}) /\ UNCHANGED <<output, backup>>
       \/ /\ output # Absent /\ mishaps' = mishaps \cup {"overtaken"}
          /\ UNCHANGED <<output, backup, failures>>
    /\ UNCHANGED <<inputs, staged, cargoVars, runs, found, skewed, orphan>>

\* Mutant: the old directory is left where it is.
DiscardForgets(p) ==
    /\ Step(p) = "discard" /\ Ends(p, "built")
    /\ UNCHANGED <<inputs, dirVars, cargoVars, history>>

\* The old directory goes.
Discard(p) ==
    /\ Step(p) = "discard"
    /\ \/ Ends(p, "built") /\ backup' = [backup EXCEPT ![p] = Absent] /\ UNCHANGED faultVars
       \/ /\ backup[p] # Absent /\ Fails("rmtree", {"unremoved"})
          /\ Ends(p, "failed") /\ HalfRemoved(p, backup, backup')
    /\ UNCHANGED <<inputs, output, staged, cargoVars, runs, found, skewed, orphan>>

\* main's finally, after a failure.
Cleanup(p) ==
    /\ Step(p) = "cleanup" /\ Ends(p, "failed")
    /\ \/ staged' = [staged EXCEPT ![p] = Absent] /\ UNCHANGED faultVars
       \/ Fails("rmtree", {"unremoved"}) /\ HalfRemoved(p, staged, staged')
    /\ UNCHANGED <<inputs, output, backup, cargoVars, runs, found, skewed, orphan>>

\* A builder is killed; its directories stay.
Kill(p) ==
    /\ Step(p) \notin Ended /\ Fails("kill", {"killed"}) /\ Ends(p, "off")
    /\ UNCHANGED <<inputs, dirVars, cargoVars, runs, found, skewed, orphan>>

Builder(p) == \/ Start(p) \/ Digest(p) \/ ReadCache(p) \/ ReadArtifact(p) \/ Stage(p)
              \/ BuildRevision(p) \/ WriteCache(p) \/ CleanBackup(p) \/ Look(p) \/ Move(p)
              \/ Install(p) \/ Rescue(p) \/ Restore(p) \/ Discard(p) \/ Cleanup(p)
              \/ Kill(p)

-----------------------------------------------------------------------------
(* build.rs *)

CargoPanics == /\ cargo' = "panicked" /\ pending' = {} /\ manifest' = Missing
               /\ embedded' = [r \in Revisions |-> <<Missing, Missing>>]

\* The directory is there and lists a manifest for every revision.
CargoList ==
    /\ cargo = "off"
    /\ IF output # Absent /\ \A r \in Revisions : output.art[<<r, "json">>] # Missing
       THEN cargo' = "manifest" /\ pending' = Revisions /\ UNCHANGED <<manifest, embedded>>
       ELSE CargoPanics
    /\ UNCHANGED <<inputs, builder, dirVars, history>>

\* The next revision's manifest ...
CargoManifest ==
    /\ cargo = "manifest"
    /\ LET f == <<First(pending), "json">> IN
       IF output # Absent /\ output.art[f] # Missing
       THEN cargo' = "bit" /\ manifest' = output.art[f] /\ UNCHANGED <<pending, embedded>>
       ELSE CargoPanics
    /\ UNCHANGED <<inputs, builder, dirVars, history>>

\* ... and its bitstream, whose digest the manifest has.
CargoBit ==
    /\ cargo = "bit"
    /\ LET r == First(pending) IN
       IF output # Absent /\ output.art[<<r, "bit">>] = manifest
       THEN /\ embedded' = [embedded EXCEPT ![r] = <<manifest, output.art[<<r, "bit">>]>>]
            /\ pending' = pending \ {r} /\ manifest' = Missing
            /\ cargo' = IF pending' = {} THEN "done" ELSE "manifest"
       ELSE CargoPanics
    /\ UNCHANGED <<inputs, builder, dirVars, history>>

\* Every process has ended.
Finished == /\ \A p \in Builders : Step(p) \in Ended
            /\ cargo \in {"done", "panicked"} /\ UNCHANGED vars

Next == \/ Edit \/ (\E p \in Builders : Builder(p))
        \/ CargoList \/ CargoManifest \/ CargoBit \/ Finished

Spec == Init /\ [][Next]_vars

-----------------------------------------------------------------------------
(* Properties. *)

Dirs == {Absent} \cup [art : [Files -> Versions \cup {Missing}],
                       cache : [digest : Versions \cup {Missing},
                                built : Versions \cup {Missing}]]

Locals == [step : Ended \cup {"digest", "cache", "artifacts", "stage", "build",
                    "clean_backup", "look", "move", "install", "rescue", "restore",
                    "discard", "cleanup"},
           code : Versions \cup {Missing}, digest : Versions \cup {Missing},
           todo : (SUBSET Files) \cup (SUBSET Revisions),
           expected : Versions \cup {Missing}, read : SUBSET Versions]

TypeOK ==
    /\ inputs \in Versions
    /\ builder \in [Builders -> Locals]
    /\ output \in Dirs /\ staged \in [Builders -> Dirs] /\ backup \in [Builders -> Dirs]
    /\ cargo \in {"off", "manifest", "bit", "done", "panicked"}
    /\ pending \subseteq Revisions /\ manifest \in Versions \cup {Missing}
    /\ embedded \in [Revisions -> (Versions \cup {Missing}) \X (Versions \cup {Missing})]
    /\ runs \in 0 .. MaxRuns /\ failures \in 0 .. MaxFailures
    /\ found \in {"whole", "damaged", "none"} /\ skewed \subseteq Versions
    /\ orphan \in BOOLEAN
    /\ mishaps \subseteq {"killed", "unremoved", "unrestored", "overtaken"}

(* Whatever fails and whoever else builds, no builder puts a directory in the
   output's place that is not one whole build. *)
OutputIsWhole == found # "damaged" => output = Absent \/ Whole(output)

(* Resources that were there are missing only while a builder that runs is
   between its two renames: a failure puts them back, a rival does not take
   them away.  Only a killed builder, or one that could not put them back,
   leaves none. *)
MissingOnlyInside ==
    output = Absent /\ found # "none" =>
        \/ mishaps \cap {"killed", "unrestored"} # {}
        \/ \E p \in Builders : Step(p) \in {"install", "rescue", "restore"}
                               /\ backup[p] # Absent

(* Killed builders lose nothing: until one fails to put a directory back, a
   whole build lies under some name, though it may not be the output's. *)
SomeCopySurvives ==
    found = "whole" /\ "unrestored" \notin mishaps =>
        \/ Whole(output) \/ orphan
        \/ \E p \in Builders : Whole(staged[p]) \/ Whole(backup[p])

(* The check of the cache reads its files one by one while a rival swaps the
   directory, yet all it accepts is of the version of its digest.  The
   exception is a digest computed over sources edited after their import. *)
ReuseIsCurrent ==
    \A p \in Builders : Step(p) = "reused" /\ builder[p].digest \notin skewed =>
                            builder[p].read = {builder[p].digest}

(* A builder that has ended leaves a directory behind only if it was killed,
   could not remove it, could not put it back, or found its place taken. *)
LeftoversHaveCause ==
    (\E p \in Builders : Step(p) \in Ended /\ (staged[p] # Absent \/ backup[p] # Absent)) =>
        mishaps # {}

(* build.rs embeds a manifest only with the bitstream it was made for, though
   the directory is swapped between the two reads. *)
EmbeddedPairs ==
    \A r \in Revisions : embedded[r][1] = embedded[r][2]

(* What is about to be installed is this builder's whole build, with its cache
   file, at any step of replace_directory; and see the two above. *)
BuilderInv ==
    /\ TypeOK /\ LeftoversHaveCause /\ EmbeddedPairs
    /\ \A p \in Builders :
          Step(p) \in {"clean_backup", "look", "move", "install", "rescue", "restore"} =>
              staged[p] = Built(builder[p].code, builder[p].digest)

=============================================================================
