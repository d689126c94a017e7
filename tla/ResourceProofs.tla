---------------------------- MODULE ResourceProofs ----------------------------
(***************************************************************************)
(* Proofs about ResourceBuild: what its run checks of two builders holds   *)
(* for any number of builders, revisions and versions, with every failure  *)
(* and any number of kills and restarts.                                   *)
(***************************************************************************)
EXTENDS ResourceBuild, TLAPS

Inside    == {"install", "rescue", "restore"}
Replacing == {"clean_backup", "look", "move"} \cup Inside

\* What a running builder knows at each step.
LocalOK(p) ==
    /\ Step(p) \notin Ended => builder[p].code \in Versions
    /\ Step(p) \notin Ended \cup {"digest"} => builder[p].digest \in Versions
    /\ Step(p) \in {"digest", "cache"} => builder[p].read = {}
    /\ Step(p) = "artifacts" =>
          /\ builder[p].todo \subseteq Files /\ builder[p].todo # {}
          /\ builder[p].expected \in Versions
          /\ builder[p].digest \notin skewed => builder[p].expected = builder[p].digest
          /\ builder[p].read \subseteq {builder[p].expected}
    /\ Step(p) = "build" =>
          /\ builder[p].todo \subseteq Revisions /\ staged[p] # Absent
          /\ \A f \in Files : f[1] \notin builder[p].todo => staged[p].art[f] = builder[p].code
    /\ Step(p) \in Replacing => staged[p] = Built(builder[p].code, builder[p].digest)

LocalInv == \A p \in Builders : LocalOK(p)

\* A cache file describes the build of its digest, or one of a skewed digest.
Sound(dir) ==
    dir # Absent /\ dir.cache.digest # Missing =>
        /\ dir.cache.built \in Versions
        /\ dir.cache.digest \notin skewed => dir.cache.built = dir.cache.digest

CacheInv ==
    /\ Sound(output)
    /\ \A p \in Builders : Sound(staged[p]) /\ Sound(backup[p])

\* What a builder has moved away was the output.
BackupInv ==
    \A p \in Builders :
        /\ Step(p) \in {"look", "move"} => backup[p] = Absent
        /\ found # "damaged" /\ Step(p) \in Inside =>
              backup[p] = Absent \/ Whole(backup[p])

\* Until something goes wrong a directory lies only where a running builder
\* still needs it.
CauseInv ==
    mishaps = {} =>
        \A p \in Builders :
            /\ staged[p] # Absent => Step(p) \in {"build", "cleanup"} \cup Replacing
            /\ backup[p] # Absent => Step(p) \in {"discard"} \cup Inside

\* While there is no output its last copy is the backup of a builder that is
\* about to install, or lies beside the staged directory of one killed there.
CopyInv ==
    found = "whole" /\ "unrestored" \notin mishaps =>
        \/ Whole(output) \/ orphan
        \/ \E p \in Builders : \/ Step(p) \in Inside /\ Whole(backup[p])
                               \/ Step(p) = "off" /\ Whole(staged[p])

\* build.rs has a manifest to look for, and has one when it looks for its bitstream.
CargoInv ==
    /\ cargo \in {"manifest", "bit"} => pending # {}
    /\ cargo = "bit" => manifest \in Versions
    /\ EmbeddedPairs

ResourceIInv ==
    /\ TypeOK /\ LocalInv /\ CacheInv /\ BackupInv /\ CauseInv /\ CopyInv /\ CargoInv
    /\ OutputIsWhole /\ MissingOnlyInside /\ ReuseIsCurrent

-----------------------------------------------------------------------------
(* Versions and directories. *)

LEMMA VersionFacts == Missing \notin Versions /\ \A v \in Versions : v \in Nat
  BY VersionAssumption

LEMMA DirFacts ==
  ASSUME NEW d \in Dirs, d # Absent
  PROVE  /\ d.art \in [Files -> Versions \cup {Missing}]
         /\ d.cache.digest \in Versions \cup {Missing}
         /\ d.cache.built \in Versions \cup {Missing}
         /\ d.cache \in [digest : Versions \cup {Missing}, built : Versions \cup {Missing}]
  BY DEF Dirs

\* A record with a cache file is a directory that is there.
LEMMA PresentFacts ==
  ASSUME NEW d \in [art : [Files -> Versions \cup {Missing}],
                    cache : [digest : Versions \cup {Missing},
                             built : Versions \cup {Missing}]]
  PROVE  d \in Dirs /\ d # Absent
  <1>1. d # Absent
    <2>1. "cache" \in DOMAIN d OBVIOUS
    <2>2. "cache" \notin DOMAIN Absent BY DEF Absent
    <2> QED BY <2>1, <2>2
  <1> QED BY <1>1 DEF Dirs

LEMMA EmptyFacts == Empty \in Dirs /\ Empty # Absent /\ Empty.cache.digest = Missing
  <1>1. Empty.cache.digest = Missing BY DEF Empty, NoCache
  <1>2. Empty \in [art : [Files -> Versions \cup {Missing}],
                   cache : [digest : Versions \cup {Missing},
                            built : Versions \cup {Missing}]]
    BY DEF Empty, NoCache
  <1> QED BY <1>1, <1>2, PresentFacts

LEMMA BuiltFacts ==
  ASSUME NEW c \in Versions, NEW d \in Versions
  PROVE  /\ Built(c, d) \in Dirs /\ Built(c, d) # Absent /\ Whole(Built(c, d))
         /\ Built(c, d).art = [f \in Files |-> c]
         /\ Built(c, d).cache = [digest |-> d, built |-> c]
  <1>1. Built(c, d) \in [art : [Files -> Versions \cup {Missing}],
                         cache : [digest : Versions \cup {Missing},
                                  built : Versions \cup {Missing}]]
    BY DEF Built
  <1>2. Built(c, d).art = [f \in Files |-> c] /\ Built(c, d).cache = [digest |-> d, built |-> c]
    BY DEF Built
  <1> QED BY <1>1, <1>2, PresentFacts DEF Whole

LEMMA FilesFacts ==
  Files # {} /\ \A r \in Revisions : <<r, "json">> \in Files /\ <<r, "bit">> \in Files
  <1>1. \A r \in Revisions : <<r, "json">> \in Files /\ <<r, "bit">> \in Files BY DEF Files
  <1>2. PICK r \in Revisions : TRUE BY RevisionAssumption
  <1> QED BY <1>1, <1>2

LEMMA FirstFacts ==
  ASSUME NEW set, set # {}
  PROVE  First(set) \in set
  BY DEF First

LEMMA AtFacts ==
  ASSUME NEW s \in Ended \cup {"digest"}
  PROVE  At(s) \in Locals /\ At(s).step = s
  BY DEF At, Locals

LEMMA InitResource == Init => ResourceIInv
  <1> SUFFICES ASSUME Init PROVE ResourceIInv
    OBVIOUS
  <1>1. At("off") \in Locals /\ At("off").step = "off" BY AtFacts DEF Ended
  <1>2. output \in Dirs /\ Sound(output)
    <2>1. CASE output = Absent BY <2>1 DEF Dirs, Sound
    <2>2. CASE \E v \in Versions : output = [Built(v, v) EXCEPT !.cache = NoCache]
      <3>1. PICK v \in Versions : output = [Built(v, v) EXCEPT !.cache = NoCache] BY <2>2
      <3>2. output = [art |-> [f \in Files |-> v], cache |-> NoCache] BY <3>1 DEF Built
      <3> QED BY <3>2, PresentFacts DEF NoCache, Sound
    <2>3. CASE \E v \in Versions : output = Built(v, v)
      <3>1. PICK v \in Versions : output = Built(v, v) BY <2>3
      <3>2. output \in Dirs /\ output.cache = [digest |-> v, built |-> v]
        BY <3>1, BuiltFacts
      <3> QED BY <3>2 DEF Sound
    <2>4. CASE \E v \in Versions, f \in Files, w \in Versions \cup {Missing} :
                   output = [Built(v, v) EXCEPT !.art[f] = w]
      <3>1. PICK v \in Versions, f \in Files, w \in Versions \cup {Missing} :
                   output = [Built(v, v) EXCEPT !.art[f] = w]
        BY <2>4
      <3>2. output = [art |-> [[g \in Files |-> v] EXCEPT ![f] = w],
                      cache |-> [digest |-> v, built |-> v]]
        BY <3>1 DEF Built
      <3> QED BY <3>2, PresentFacts DEF Sound
    <2> QED BY <2>1, <2>2, <2>3, <2>4 DEF Init, Checkouts, Builds, Damaged
  <1>3. TypeOK
    <2>1. 0 \in 0 .. MaxRuns /\ 0 \in 0 .. MaxFailures BY BoundAssumption
    <2>2. Absent \in Dirs BY DEF Dirs
    <2> QED BY <1>1, <1>2, <2>1, <2>2 DEF Init, TypeOK
  <1>4. \A p \in Builders : Step(p) = "off" /\ staged[p] = Absent /\ backup[p] = Absent
    BY <1>1 DEF Init, Step
  <1>5. LocalInv /\ BackupInv /\ CauseInv /\ ReuseIsCurrent
    BY <1>4 DEF LocalInv, LocalOK, BackupInv, CauseInv, ReuseIsCurrent, Ended, Replacing, Inside
  <1>6. CacheInv BY <1>2, <1>4 DEF CacheInv, Sound
  <1>7. CopyInv /\ OutputIsWhole /\ MissingOnlyInside
    BY DEF Init, CopyInv, OutputIsWhole, MissingOnlyInside
  <1>8. CargoInv BY DEF Init, CargoInv, EmbeddedPairs
  <1> QED BY <1>3, <1>5, <1>6, <1>7, <1>8 DEF ResourceIInv

-----------------------------------------------------------------------------
(* One step of a builder: its own locals and directories, and no other's. *)

Running == {"digest", "cache", "artifacts", "stage", "build", "discard", "cleanup"} \cup Replacing

LEMMA GotoFacts ==
  ASSUME TypeOK, NEW p \in Builders, NEW s \in Ended \cup Running, Goto(p, s)
  PROVE  /\ builder' \in [Builders -> Locals]
         /\ builder'[p] = [builder[p] EXCEPT !.step = s] /\ Step(p)' = s
         /\ builder'[p].code = builder[p].code /\ builder'[p].digest = builder[p].digest
         /\ \A q \in Builders \ {p} : builder'[q] = builder[q]
  <1>1. builder \in [Builders -> Locals] BY DEF TypeOK
  <1>2. [builder[p] EXCEPT !.step = s] \in Locals
    BY <1>1 DEF Locals, Running, Replacing, Inside
  <1>3. builder' = [builder EXCEPT ![p] = [builder[p] EXCEPT !.step = s]] BY DEF Goto
  <1>4. /\ [builder[p] EXCEPT !.step = s].step = s
        /\ [builder[p] EXCEPT !.step = s].code = builder[p].code
        /\ [builder[p] EXCEPT !.step = s].digest = builder[p].digest
    BY <1>1 DEF Locals
  <1> QED BY <1>1, <1>2, <1>3, <1>4 DEF Step

LEMMA EndsFacts ==
  ASSUME TypeOK, NEW p \in Builders, NEW s \in Ended, Ends(p, s)
  PROVE  /\ builder' \in [Builders -> Locals]
         /\ builder'[p] = At(s) /\ Step(p)' = s
         /\ \A q \in Builders \ {p} : builder'[q] = builder[q]
  BY AtFacts DEF TypeOK, Ends, Step

LEMMA CheckedFacts ==
  ASSUME ResourceIInv, NEW p \in Builders, ReadArtifact(p)
  PROVE  /\ builder' \in [Builders -> Locals]
         /\ \A q \in Builders \ {p} : builder'[q] = builder[q]
         /\ \/ Step(p)' = "stage" /\ builder'[p].code = builder[p].code
               /\ builder'[p].digest = builder[p].digest
            \/ /\ builder'[p].read = builder[p].read \cup {builder[p].expected}
               /\ builder'[p].code \in {builder[p].code, Missing}
               /\ builder'[p].digest = builder[p].digest
               /\ \/ /\ Step(p)' = "artifacts" /\ builder'[p].code = builder[p].code
                     /\ builder'[p].expected = builder[p].expected
                     /\ builder'[p].todo \subseteq builder[p].todo /\ builder'[p].todo # {}
                  \/ Step(p)' = "reused"
  <1> DEFINE f == First(builder[p].todo)
             rest == builder[p].todo \ {f}
             seen == builder[p].read \cup {output.art[f]}
             good == output # Absent /\ output.art[f] = builder[p].expected
  <1>0. /\ builder \in [Builders -> Locals] /\ Step(p) = "artifacts"
        /\ builder[p].todo \subseteq Files /\ builder[p].expected \in Versions
        /\ builder[p].read \subseteq {builder[p].expected}
    BY DEF ResourceIInv, TypeOK, LocalInv, LocalOK, ReadArtifact
  <1>1. CASE ~good
    <2>1. builder' = [builder EXCEPT ![p].step = "stage", ![p].todo = {},
                                     ![p].expected = Missing, ![p].read = {}]
      BY <1>1 DEF ReadArtifact, Checked
    <2>2. [builder[p] EXCEPT !.step = "stage", !.todo = {}, !.expected = Missing, !.read = {}]
             \in Locals
      BY <1>0, ZenonT(60) DEF Locals
    <2> QED BY <1>0, <2>1, <2>2 DEF Step, Locals
  <1>2. CASE good /\ rest # {}
    <2>1. builder' = [builder EXCEPT ![p].todo = rest, ![p].read = seen]
      BY <1>2 DEF ReadArtifact, Checked
    <2>2. seen = builder[p].read \cup {builder[p].expected} BY <1>2
    <2>3. [builder[p] EXCEPT !.todo = rest, !.read = seen] \in Locals
      BY <1>0, <2>2, ZenonT(60) DEF Locals
    <2> QED BY <1>0, <1>2, <2>1, <2>2, <2>3 DEF Step, Locals
  <1>3. CASE good /\ rest = {}
    <2>1. builder' = [builder EXCEPT ![p] = [At("reused") EXCEPT
                                   !.digest = builder[p].digest, !.read = seen]]
      BY <1>3 DEF ReadArtifact, Checked
    <2>2. seen = builder[p].read \cup {builder[p].expected} BY <1>3
    <2>3. [At("reused") EXCEPT !.digest = builder[p].digest, !.read = seen] \in Locals
      BY <1>0, <2>2 DEF Locals, At, Ended
    <2> QED BY <1>0, <2>1, <2>2, <2>3 DEF Step, Locals, At
  <1> QED BY <1>1, <1>2, <1>3

LEMMA BuilderLocals ==
  ASSUME ResourceIInv, NEW p \in Builders, Builder(p)
  PROVE  /\ builder' \in [Builders -> Locals]
         /\ \A q \in Builders \ {p} : builder'[q] = builder[q]
  <1>0. TypeOK BY DEF ResourceIInv
  <1>1. CASE Start(p) BY <1>0, <1>1 DEF Start, TypeOK, At, Locals
  <1>2. CASE Digest(p)
    <2>1. builder[p] \in Locals /\ inputs \in Versions BY <1>0 DEF TypeOK
    <2>2. [builder[p] EXCEPT !.step = "cache", !.digest = inputs] \in Locals
      BY <2>1 DEF Locals
    <2> QED BY <1>0, <1>2, <2>2 DEF Digest, TypeOK
  <1>3. CASE ReadCache(p)
    <2>1. CASE output # Absent /\ output.cache.digest = builder[p].digest
      <3>1. output.cache.built \in Versions \cup {Missing} BY <1>0, <2>1, DirFacts DEF TypeOK
      <3>2. builder[p] \in Locals BY <1>0 DEF TypeOK
      <3>3. [builder[p] EXCEPT !.step = "artifacts", !.todo = Files,
                               !.expected = output.cache.built] \in Locals
        BY <3>1, <3>2 DEF Locals
      <3> QED BY <1>0, <1>3, <2>1, <3>3 DEF ReadCache, TypeOK
    <2>2. CASE ~(output # Absent /\ output.cache.digest = builder[p].digest)
      BY <1>0, <1>3, <2>2, GotoFacts DEF ReadCache, Running
    <2> QED BY <2>1, <2>2
  <1>4. CASE ReadArtifact(p) BY <1>4, CheckedFacts
  <1>5. CASE Stage(p)
    <2>1. CASE Ends(p, "failed") BY <1>0, <2>1, EndsFacts DEF Ended
    <2>2. builder[p] \in Locals BY <1>0 DEF TypeOK
    <2>3. [builder[p] EXCEPT !.step = "build", !.todo = Revisions] \in Locals
      BY <2>2 DEF Locals
    <2> QED BY <1>0, <1>5, <2>1, <2>3, ZenonT(60) DEF Stage, TypeOK
  <1>6. CASE BuildRevision(p)
    <2>1. CASE Goto(p, "cleanup") BY <1>0, <2>1, GotoFacts DEF Running
    <2>2. CASE Written(p, First(builder[p].todo))
      <3>1. builder[p].todo \in SUBSET Revisions
        BY <1>6 DEF BuildRevision, ResourceIInv, LocalInv, LocalOK
      <3>2. builder[p] \in Locals BY <1>0 DEF TypeOK
      <3>3. [builder[p] EXCEPT !.todo = @ \ {First(builder[p].todo)}] \in Locals
        BY <3>1, <3>2 DEF Locals
      <3> QED BY <1>0, <2>2, <3>3 DEF Written, TypeOK
    <2> QED BY <1>6, <2>1, <2>2 DEF BuildRevision
  <1>7. CASE WriteCache(p) BY <1>0, <1>7, GotoFacts DEF WriteCache, Running, Replacing
  <1>8. CASE CleanBackup(p) BY <1>0, <1>8, GotoFacts DEF CleanBackup, Running, Replacing
  <1>9. CASE Look(p) BY <1>0, <1>9, GotoFacts DEF Look, Running, Replacing, Inside
  <1>10. CASE Move(p) BY <1>0, <1>10, GotoFacts DEF Move, Running, Replacing, Inside
  <1>11. CASE Install(p) BY <1>0, <1>11, GotoFacts DEF Install, Running, Replacing, Inside
  <1>12. CASE Rescue(p) BY <1>0, <1>12, GotoFacts DEF Rescue, Running, Replacing, Inside
  <1>13. CASE Restore(p) BY <1>0, <1>13, GotoFacts DEF Restore, Running
  <1>14. CASE Discard(p) BY <1>0, <1>14, EndsFacts DEF Discard, Ended
  <1>15. CASE Cleanup(p) BY <1>0, <1>15, EndsFacts DEF Cleanup, Ended
  <1>16. CASE Kill(p) BY <1>0, <1>16, EndsFacts DEF Kill, Ended
  <1> QED BY <1>1, <1>2, <1>3, <1>4, <1>5, <1>6, <1>7, <1>8, <1>9, <1>10, <1>11, <1>12,
             <1>13, <1>14, <1>15, <1>16 DEF Builder

LEMMA HalfFacts ==
  ASSUME NEW dirs \in [Builders -> Dirs], NEW p \in Builders, NEW after,
         HalfRemoved(p, dirs, after)
  PROVE  /\ after \in [Builders -> Dirs]
         /\ \A q \in Builders \ {p} : after[q] = dirs[q]
         /\ after[p] \in {dirs[p], Empty}
  BY EmptyFacts DEF HalfRemoved

LEMMA WrittenFacts ==
  ASSUME ResourceIInv, NEW p \in Builders, Step(p) = "build",
         NEW r \in Revisions, Written(p, r)
  PROVE  /\ staged' \in [Builders -> Dirs] /\ staged'[p] # Absent
         /\ \A q \in Builders \ {p} : staged'[q] = staged[q]
         /\ staged'[p].cache = staged[p].cache
         /\ \A f \in Files : staged'[p].art[f] = IF f[1] = r THEN builder[p].code
                                                 ELSE staged[p].art[f]
  <1>1. /\ staged \in [Builders -> Dirs] /\ staged[p] # Absent
        /\ builder[p].code \in Versions /\ staged[p] \in Dirs
    BY DEF ResourceIInv, TypeOK, LocalInv, LocalOK, Ended
  <1>2. staged[p].art \in [Files -> Versions \cup {Missing}] BY <1>1, DirFacts
  <1> DEFINE art == [f \in Files |-> IF f[1] = r THEN builder[p].code ELSE staged[p].art[f]]
             dir == [staged[p] EXCEPT !.art = art]
  <1>3. staged' = [staged EXCEPT ![p] = dir] BY DEF Written
  <1>4. art \in [Files -> Versions \cup {Missing}] BY <1>1, <1>2
  <1>5. staged[p] \in [art : [Files -> Versions \cup {Missing}],
                       cache : [digest : Versions \cup {Missing},
                                built : Versions \cup {Missing}]]
    BY <1>1 DEF Dirs
  <1>6. /\ dir \in [art : [Files -> Versions \cup {Missing}],
                    cache : [digest : Versions \cup {Missing},
                             built : Versions \cup {Missing}]]
        /\ dir.cache = staged[p].cache /\ dir.art = art
    BY <1>4, <1>5
  <1>7. dir \in Dirs /\ dir # Absent BY <1>6, PresentFacts
  <1> QED BY <1>1, <1>3, <1>6, <1>7

LEMMA WriteCacheFacts ==
  ASSUME ResourceIInv, NEW p \in Builders, WriteCache(p), Goto(p, "clean_backup")
  PROVE  /\ staged' \in [Builders -> Dirs]
         /\ staged'[p] = Built(builder[p].code, builder[p].digest)
         /\ \A q \in Builders \ {p} : staged'[q] = staged[q]
  <1> DEFINE code == builder[p].code
             digest == builder[p].digest
  <1>1. /\ staged \in [Builders -> Dirs] /\ staged[p] # Absent /\ staged[p] \in Dirs
        /\ code \in Versions /\ digest \in Versions
        /\ \A f \in Files : f[1] \notin builder[p].todo => staged[p].art[f] = code
        /\ builder[p].todo = {}
    BY DEF ResourceIInv, TypeOK, LocalInv, LocalOK, WriteCache, Ended
  <1>2. staged[p] \in [art : [Files -> Versions \cup {Missing}],
                       cache : [digest : Versions \cup {Missing},
                                built : Versions \cup {Missing}]]
    BY <1>1 DEF Dirs
  <1>3. staged[p].art = [f \in Files |-> code] BY <1>1, <1>2
  <1>4. Step(p)' = "clean_backup"
    BY GotoFacts DEF ResourceIInv, TypeOK, Goto, Step, Locals
  <1>5. staged' = [staged EXCEPT ![p].cache = [digest |-> digest, built |-> code]]
    <2>1. ~ Goto(p, "cleanup")
      BY <1>4, GotoFacts DEF ResourceIInv, Step, TypeOK, Goto, Locals
    <2> QED BY <2>1 DEF WriteCache
  <1>6. [staged[p] EXCEPT !.cache = [digest |-> digest, built |-> code]] = Built(code, digest)
    BY <1>2, <1>3 DEF Built
  <1>7. staged' = [staged EXCEPT ![p] = Built(code, digest)] BY <1>5, <1>6
  <1>8. Built(code, digest) \in Dirs BY <1>1, BuiltFacts
  <1> QED BY <1>1, <1>7, <1>8

LEMMA BuilderDirs ==
  ASSUME ResourceIInv, NEW p \in Builders, Builder(p)
  PROVE  /\ output' \in Dirs /\ staged' \in [Builders -> Dirs] /\ backup' \in [Builders -> Dirs]
         /\ \A q \in Builders \ {p} : staged'[q] = staged[q] /\ backup'[q] = backup[q]
  <1> USE DEF dirVars, cargoVars, history
  <1>0. /\ output \in Dirs /\ staged \in [Builders -> Dirs] /\ backup \in [Builders -> Dirs]
        /\ Absent \in Dirs /\ Empty \in Dirs
    BY EmptyFacts DEF ResourceIInv, TypeOK, Dirs
  <1>1. CASE Start(p) BY <1>0, <1>1 DEF Start
  <1>2. CASE Digest(p) BY <1>0, <1>2 DEF Digest
  <1>3. CASE ReadCache(p) BY <1>0, <1>3 DEF ReadCache
  <1>4. CASE ReadArtifact(p) BY <1>0, <1>4 DEF ReadArtifact
  <1>5. CASE Stage(p) BY <1>0, <1>5 DEF Stage
  <1>6. CASE BuildRevision(p)
    <2>1. First(builder[p].todo) \in Revisions
      BY <1>6, FirstFacts DEF BuildRevision, ResourceIInv, LocalInv, LocalOK
    <2> QED BY <1>0, <1>6, <2>1, WrittenFacts DEF BuildRevision
  <1>7. CASE WriteCache(p) BY <1>0, <1>7, WriteCacheFacts DEF WriteCache
  <1>8. CASE CleanBackup(p) BY <1>0, <1>8, HalfFacts DEF CleanBackup
  <1>9. CASE Look(p) BY <1>0, <1>9 DEF Look
  <1>10. CASE Move(p) BY <1>0, <1>10 DEF Move
  <1>11. CASE Install(p) BY <1>0, <1>11 DEF Install
  <1>12. CASE Rescue(p) BY <1>0, <1>12 DEF Rescue
  <1>13. CASE Restore(p) BY <1>0, <1>13 DEF Restore
  <1>14. CASE Discard(p) BY <1>0, <1>14, HalfFacts DEF Discard
  <1>15. CASE Cleanup(p) BY <1>0, <1>15, HalfFacts DEF Cleanup
  <1>16. CASE Kill(p) BY <1>0, <1>16 DEF Kill
  <1> QED BY <1>1, <1>2, <1>3, <1>4, <1>5, <1>6, <1>7, <1>8, <1>9, <1>10, <1>11, <1>12,
             <1>13, <1>14, <1>15, <1>16 DEF Builder

LEMMA BuilderFrame ==
  ASSUME NEW p \in Builders, Builder(p)
  PROVE  UNCHANGED <<inputs, cargo, pending, manifest, embedded, found>>
  <1> USE DEF dirVars, cargoVars, history, faultVars
  <1>1. CASE Start(p) \/ Digest(p) \/ ReadCache(p) \/ ReadArtifact(p) \/ Stage(p)
    BY <1>1 DEF Start, Digest, ReadCache, ReadArtifact, Stage
  <1>2. CASE BuildRevision(p) \/ WriteCache(p) \/ CleanBackup(p) \/ Look(p) \/ Move(p)
    BY <1>2 DEF BuildRevision, WriteCache, CleanBackup, Look, Move
  <1>3. CASE Install(p) \/ Rescue(p) \/ Restore(p) \/ Discard(p) \/ Cleanup(p) \/ Kill(p)
    BY <1>3 DEF Install, Rescue, Restore, Discard, Cleanup, Kill
  <1> QED BY <1>1, <1>2, <1>3 DEF Builder

LEMMA BuilderTypes ==
  ASSUME ResourceIInv, NEW p \in Builders, Builder(p)
  PROVE  TypeOK'
  <1> USE DEF dirVars, cargoVars, history, faultVars
  <1>0. TypeOK BY DEF ResourceIInv
  <1>1. UNCHANGED <<inputs, cargo, pending, manifest, embedded, found>>
    BY BuilderFrame
  <1>2. runs' \in 0 .. MaxRuns
    BY <1>0, BoundAssumption
       DEF TypeOK, Builder, Start, Digest, ReadCache, ReadArtifact, Stage, BuildRevision,
           WriteCache, CleanBackup, Look, Move, Install, Rescue, Restore, Discard, Cleanup, Kill
  <1>3. failures' = failures \/ (failures < MaxFailures /\ failures' = failures + 1)
    <2>1. CASE Start(p) \/ Digest(p) \/ ReadCache(p) \/ ReadArtifact(p) \/ Stage(p)
      BY <2>1 DEF Start, Digest, ReadCache, ReadArtifact, Stage, Fails
    <2>2. CASE BuildRevision(p) \/ WriteCache(p) \/ CleanBackup(p) \/ Look(p) \/ Move(p)
      BY <2>2 DEF BuildRevision, WriteCache, CleanBackup, Look, Move, Fails
    <2>3. CASE Install(p) \/ Rescue(p) \/ Restore(p)
      BY <2>3 DEF Install, Rescue, Restore, Fails
    <2>4. CASE Discard(p) \/ Cleanup(p) \/ Kill(p)
      BY <2>4 DEF Discard, Cleanup, Kill, Fails
    <2> QED BY <2>1, <2>2, <2>3, <2>4 DEF Builder
  <1>4. failures' \in 0 .. MaxFailures BY <1>0, <1>3, BoundAssumption DEF TypeOK
  <1>5. mishaps' \subseteq {"killed", "unremoved", "unrestored", "overtaken"}
    BY <1>0
       DEF TypeOK, Builder, Start, Digest, ReadCache, ReadArtifact, Stage, BuildRevision,
           WriteCache, CleanBackup, Look, Move, Install, Rescue, Restore, Discard, Cleanup,
           Kill, Fails
  <1>6. skewed' \subseteq Versions
    <2>1. CASE WriteCache(p)
      <3>1. builder[p].digest \in Versions
        BY <2>1 DEF WriteCache, ResourceIInv, LocalInv, LocalOK, Ended
      <3> QED BY <1>0, <2>1, <3>1 DEF TypeOK, WriteCache
    <2>2. CASE ~WriteCache(p)
      <3>1. skewed' = skewed
        BY <2>2 DEF Builder, Start, Digest, ReadCache, ReadArtifact, Stage, BuildRevision,
                    CleanBackup, Look, Move, Install, Rescue, Restore, Discard, Cleanup, Kill
      <3> QED BY <1>0, <3>1 DEF TypeOK
    <2> QED BY <2>1, <2>2
  <1>7. orphan' \in BOOLEAN
    <2>1. CASE Start(p) BY <1>0, <2>1 DEF TypeOK, Start
    <2>2. CASE ~Start(p)
      <3>1. orphan' = orphan
        BY <2>2 DEF Builder, Digest, ReadCache, ReadArtifact, Stage, BuildRevision, WriteCache,
                    CleanBackup, Look, Move, Install, Rescue, Restore, Discard, Cleanup, Kill
      <3> QED BY <1>0, <3>1 DEF TypeOK
    <2> QED BY <2>1, <2>2
  <1> QED BY <1>0, <1>1, <1>2, <1>4, <1>5, <1>6, <1>7, BuilderLocals, BuilderDirs DEF TypeOK

-----------------------------------------------------------------------------
(* What a builder knows, and the caches. *)

LEMMA BuilderSkews ==
  ASSUME NEW p \in Builders, Builder(p)
  PROVE  skewed \subseteq skewed' /\ (skewed' = skewed \/ WriteCache(p))
  <1> USE DEF dirVars, cargoVars, history, faultVars
  <1>1. CASE Start(p) \/ Digest(p) \/ ReadCache(p) \/ ReadArtifact(p) \/ Stage(p)
    BY <1>1 DEF Start, Digest, ReadCache, ReadArtifact, Stage
  <1>2. CASE BuildRevision(p) \/ CleanBackup(p) \/ Look(p) \/ Move(p)
    BY <1>2 DEF BuildRevision, CleanBackup, Look, Move
  <1>3. CASE Install(p) \/ Rescue(p) \/ Restore(p) \/ Discard(p) \/ Cleanup(p) \/ Kill(p)
    BY <1>3 DEF Install, Rescue, Restore, Discard, Cleanup, Kill
  <1>4. CASE WriteCache(p) BY <1>4 DEF WriteCache
  <1> QED BY <1>1, <1>2, <1>3, <1>4 DEF Builder

LEMMA BuilderLocalOK ==
  ASSUME ResourceIInv, NEW p \in Builders, Builder(p)
  PROVE  LocalOK(p)'
  <1> USE DEF dirVars, cargoVars, history, faultVars
  <1>0. /\ TypeOK /\ LocalOK(p) /\ builder[p] \in Locals /\ builder \in [Builders -> Locals]
        /\ staged \in [Builders -> Dirs]
    BY DEF ResourceIInv, LocalInv, TypeOK
  <1>1. CASE Start(p)
    <2>1. builder'[p] = [At("digest") EXCEPT !.code = inputs] BY <1>0, <1>1 DEF Start
    <2>2. Step(p)' = "digest" /\ builder'[p].code \in Versions /\ builder'[p].read = {}
      BY <1>0, <2>1 DEF At, Step, TypeOK
    <2> QED BY <2>2 DEF LocalOK, Replacing, Inside
  <1>2. CASE Digest(p)
    <2>1. builder'[p] = [builder[p] EXCEPT !.step = "cache", !.digest = inputs]
      BY <1>0, <1>2 DEF Digest
    <2>2. /\ Step(p)' = "cache" /\ builder'[p].code = builder[p].code
          /\ builder'[p].digest \in Versions /\ builder'[p].read = builder[p].read
      BY <1>0, <2>1 DEF Locals, Step, TypeOK
    <2> QED BY <1>0, <1>2, <2>2 DEF Digest, LocalOK, Replacing, Inside, Ended
  <1>3. CASE ReadCache(p)
    <2>1. CASE output # Absent /\ output.cache.digest = builder[p].digest
      <3>1. builder'[p] = [builder[p] EXCEPT !.step = "artifacts", !.todo = Files,
                                             !.expected = output.cache.built]
        BY <1>0, <1>3, <2>1 DEF ReadCache
      <3>2. builder[p].digest \in Versions /\ builder[p].code \in Versions
        BY <1>0, <1>3 DEF ReadCache, LocalOK, Ended
      <3>3. builder[p].read = {} BY <1>0, <1>3 DEF ReadCache, LocalOK
      <3>4. /\ output.cache.built \in Versions
            /\ builder[p].digest \notin skewed => output.cache.built = builder[p].digest
        BY <2>1, <3>2, VersionFacts DEF ResourceIInv, CacheInv, Sound
      <3>5. /\ Step(p)' = "artifacts" /\ builder'[p].code = builder[p].code
            /\ builder'[p].digest = builder[p].digest /\ builder'[p].todo = Files
            /\ builder'[p].expected = output.cache.built /\ builder'[p].read = {}
        BY <1>0, <3>1, <3>3 DEF Locals, Step
      <3>6. skewed' = skewed BY <1>3 DEF ReadCache
      <3> QED BY <3>2, <3>4, <3>5, <3>6, FilesFacts DEF LocalOK, Replacing, Inside
    <2>2. CASE ~(output # Absent /\ output.cache.digest = builder[p].digest)
      <3>1. /\ Step(p)' = "stage" /\ builder'[p].code = builder[p].code
            /\ builder'[p].digest = builder[p].digest
        BY <1>0, <1>3, <2>2, GotoFacts DEF ReadCache, Running
      <3> QED BY <1>0, <1>3, <3>1 DEF ReadCache, LocalOK, Replacing, Inside, Ended
    <2> QED BY <2>1, <2>2
  <1>4. CASE ReadArtifact(p)
    <2>1. Step(p) = "artifacts" /\ skewed' = skewed BY <1>4 DEF ReadArtifact
    <2>2. CASE Step(p)' = "stage"
      BY <1>0, <1>4, <2>1, <2>2, CheckedFacts DEF LocalOK, Replacing, Inside, Ended
    <2>3. CASE Step(p)' = "reused" BY <2>3 DEF LocalOK, Replacing, Inside, Ended
    <2>4. CASE Step(p)' = "artifacts"
      BY <1>0, <1>4, <2>1, <2>4, CheckedFacts DEF LocalOK, Replacing, Inside, Ended
    <2> QED BY <1>4, <2>2, <2>3, <2>4, CheckedFacts
  <1>5. CASE Stage(p)
    <2>1. CASE Ends(p, "failed")
      BY <1>0, <2>1, EndsFacts DEF Ended, LocalOK, Replacing, Inside
    <2>2. CASE /\ builder' = [builder EXCEPT ![p].step = "build", ![p].todo = Revisions]
               /\ staged' = [staged EXCEPT ![p] = Empty]
      <3>1. /\ Step(p)' = "build" /\ builder'[p].code = builder[p].code
            /\ builder'[p].digest = builder[p].digest /\ builder'[p].todo = Revisions
        BY <1>0, <2>2 DEF Locals, Step
      <3>2. staged'[p] # Absent BY <1>0, <2>2, EmptyFacts
      <3>3. \A f \in Files : f[1] \in Revisions BY DEF Files
      <3> QED BY <1>0, <1>5, <3>1, <3>2, <3>3 DEF Stage, LocalOK, Replacing, Inside, Ended
    <2> QED BY <1>5, <2>1, <2>2 DEF Stage
  <1>6. CASE BuildRevision(p)
    <2>1. CASE Goto(p, "cleanup")
      <3>1. /\ Step(p)' = "cleanup" /\ builder'[p].code = builder[p].code
            /\ builder'[p].digest = builder[p].digest
        BY <1>0, <2>1, GotoFacts DEF Running
      <3> QED BY <1>0, <1>6, <3>1 DEF BuildRevision, LocalOK, Replacing, Inside, Ended
    <2>2. CASE Written(p, First(builder[p].todo))
      <3> DEFINE r == First(builder[p].todo)
      <3>0. Step(p) = "build" /\ builder[p].todo # {} BY <1>6 DEF BuildRevision
      <3>1. builder[p].todo \subseteq Revisions /\ r \in Revisions
        BY <1>0, <3>0, FirstFacts DEF LocalOK
      <3>2. builder'[p] = [builder[p] EXCEPT !.todo = @ \ {r}]
        BY <1>0, <2>2 DEF Written
      <3>3. /\ Step(p)' = "build" /\ builder'[p].code = builder[p].code
            /\ builder'[p].digest = builder[p].digest
            /\ builder'[p].todo = builder[p].todo \ {r}
        BY <1>0, <3>0, <3>2 DEF Locals, Step
      <3>4. /\ staged'[p] # Absent
            /\ \A f \in Files : staged'[p].art[f] = IF f[1] = r THEN builder[p].code
                                                    ELSE staged[p].art[f]
        BY <2>2, <3>0, <3>1, WrittenFacts
      <3> QED BY <1>0, <3>0, <3>1, <3>3, <3>4 DEF LocalOK, Replacing, Inside, Ended
    <2> QED BY <1>6, <2>1, <2>2 DEF BuildRevision
  <1>7. CASE WriteCache(p)
    <2>0. /\ Step(p) = "build" /\ builder[p].code \in Versions
          /\ builder[p].digest \in Versions
      BY <1>0, <1>7 DEF WriteCache, LocalOK, Ended
    <2>1. CASE Goto(p, "clean_backup")
      <3>1. /\ Step(p)' = "clean_backup" /\ builder'[p].code = builder[p].code
            /\ builder'[p].digest = builder[p].digest
        BY <1>0, <2>1, GotoFacts DEF Running, Replacing
      <3>2. staged'[p] = Built(builder[p].code, builder[p].digest)
        BY <1>7, <2>1, WriteCacheFacts
      <3> QED BY <2>0, <3>1, <3>2 DEF LocalOK
    <2>2. CASE Goto(p, "cleanup")
      <3>1. /\ Step(p)' = "cleanup" /\ builder'[p].code = builder[p].code
            /\ builder'[p].digest = builder[p].digest
        BY <1>0, <2>2, GotoFacts DEF Running
      <3> QED BY <2>0, <3>1 DEF LocalOK, Replacing, Inside
    <2> QED BY <1>7, <2>1, <2>2 DEF WriteCache
  <1>8. CASE CleanBackup(p) \/ Look(p) \/ Move(p) \/ Install(p) \/ Rescue(p) \/ Restore(p)
    <2>1. /\ builder[p].code \in Versions /\ builder[p].digest \in Versions
          /\ staged[p] = Built(builder[p].code, builder[p].digest)
      BY <1>0, <1>8
         DEF CleanBackup, Look, Move, Install, Rescue, Restore, LocalOK, Ended, Replacing, Inside
    <2>2. \/ Step(p)' \in Replacing /\ staged' = staged
          \/ Step(p)' \in {"discard", "cleanup"}
      <3>1. CASE CleanBackup(p)
        BY <1>0, <3>1, GotoFacts DEF CleanBackup, Running, Replacing
      <3>2. CASE Look(p) BY <1>0, <3>2, GotoFacts DEF Look, Running, Replacing, Inside
      <3>3. CASE Move(p) BY <1>0, <3>3, GotoFacts DEF Move, Running, Replacing, Inside
      <3>4. CASE Install(p) BY <1>0, <3>4, GotoFacts DEF Install, Running, Replacing, Inside
      <3>5. CASE Rescue(p) BY <1>0, <3>5, GotoFacts DEF Rescue, Running, Replacing, Inside
      <3>6. CASE Restore(p) BY <1>0, <3>6, GotoFacts DEF Restore, Running
      <3> QED BY <1>8, <3>1, <3>2, <3>3, <3>4, <3>5, <3>6
    <2>3. builder'[p].code = builder[p].code /\ builder'[p].digest = builder[p].digest
      <3>1. PICK s \in Running : Goto(p, s)
        BY <1>8 DEF CleanBackup, Look, Move, Install, Rescue, Restore, Running, Replacing, Inside
      <3> QED BY <1>0, <3>1, GotoFacts
    <2> QED BY <2>1, <2>2, <2>3 DEF LocalOK, Replacing, Inside
  <1>9. CASE Discard(p) \/ Cleanup(p) \/ Kill(p)
    <2>1. PICK s \in Ended : Ends(p, s) BY <1>9 DEF Discard, Cleanup, Kill, Ended
    <2>2. Step(p)' \in Ended BY <1>0, <2>1, EndsFacts
    <2> QED BY <2>2 DEF LocalOK, Ended, Replacing, Inside
  <1> QED BY <1>1, <1>2, <1>3, <1>4, <1>5, <1>6, <1>7, <1>8, <1>9 DEF Builder

LEMMA BuilderLocal ==
  ASSUME ResourceIInv, NEW p \in Builders, Builder(p)
  PROVE  LocalInv'
  <1>1. ASSUME NEW q \in Builders \ {p} PROVE LocalOK(q)'
    <2>1. /\ builder'[q] = builder[q] /\ staged'[q] = staged[q] /\ LocalOK(q)
          /\ skewed \subseteq skewed'
      BY BuilderLocals, BuilderDirs, BuilderSkews DEF ResourceIInv, LocalInv
    <2> QED BY <2>1 DEF LocalOK, Step
  <1> QED BY <1>1, BuilderLocalOK DEF LocalInv

LEMMA BuilderCaches ==
  ASSUME ResourceIInv, NEW p \in Builders, Builder(p)
  PROVE  CacheInv'
  <1> USE DEF dirVars, cargoVars, history, faultVars
  <1>0. /\ CacheInv /\ staged \in [Builders -> Dirs] /\ backup \in [Builders -> Dirs]
        /\ skewed \subseteq skewed'
    BY BuilderSkews DEF ResourceIInv, TypeOK
  <1>1. ASSUME NEW d, Sound(d)
        PROVE  d # Absent /\ d.cache.digest # Missing =>
                   /\ d.cache.built \in Versions
                   /\ d.cache.digest \notin skewed' => d.cache.built = d.cache.digest
    BY <1>0, <1>1 DEF Sound
  <1>2. ASSUME NEW d, d \in {Absent, Empty}
        PROVE  ~(d # Absent /\ d.cache.digest # Missing)
    BY <1>2, EmptyFacts
  <1>3. /\ \/ output' = output \/ output' = Absent
           \/ output' = staged[p] \/ output' = backup[p]
        /\ \/ backup'[p] \in {Absent, Empty} \/ backup'[p] = backup[p]
           \/ backup'[p] = output
    <2>1. CASE Start(p) \/ Digest(p) \/ ReadCache(p) \/ ReadArtifact(p) \/ Stage(p)
      BY <1>0, <2>1 DEF Start, Digest, ReadCache, ReadArtifact, Stage
    <2>2. CASE BuildRevision(p) \/ WriteCache(p) \/ Look(p) \/ Move(p) \/ Install(p)
      BY <1>0, <2>2 DEF BuildRevision, WriteCache, Look, Move, Install
    <2>3. CASE CleanBackup(p) \/ Discard(p)
      BY <1>0, <2>3, HalfFacts DEF CleanBackup, Discard
    <2>4. CASE Rescue(p) \/ Restore(p) \/ Cleanup(p) \/ Kill(p)
      BY <1>0, <2>4 DEF Rescue, Restore, Cleanup, Kill
    <2> QED BY <2>1, <2>2, <2>3, <2>4 DEF Builder
  <1>4. \/ staged'[p] \in {Absent, Empty}
        \/ staged[p] # Absent /\ staged'[p] # Absent /\ staged'[p].cache = staged[p].cache
        \/ staged'[p] = staged[p]
        \/ /\ builder[p].code \in Versions /\ builder[p].digest \in Versions
           /\ staged'[p] = Built(builder[p].code, builder[p].digest)
           /\ skewed' = IF builder[p].code = builder[p].digest THEN skewed
                        ELSE skewed \cup {builder[p].digest}
    <2>1. CASE Start(p) \/ Digest(p) \/ ReadCache(p) \/ ReadArtifact(p) \/ Stage(p)
      BY <1>0, <2>1 DEF Start, Digest, ReadCache, ReadArtifact, Stage
    <2>2. CASE BuildRevision(p)
      <3>1. /\ Step(p) = "build" /\ First(builder[p].todo) \in Revisions
            /\ staged[p] # Absent
        BY <2>2, FirstFacts DEF BuildRevision, ResourceIInv, LocalInv, LocalOK
      <3> QED BY <2>2, <3>1, WrittenFacts DEF BuildRevision
    <2>3. CASE WriteCache(p)
      <3>1. /\ builder[p].code \in Versions /\ builder[p].digest \in Versions
        BY <2>3 DEF WriteCache, ResourceIInv, LocalInv, LocalOK, Ended
      <3>2. CASE Goto(p, "cleanup") /\ UNCHANGED staged BY <3>2
      <3>3. CASE /\ Goto(p, "clean_backup")
                 /\ skewed' = IF builder[p].code = builder[p].digest THEN skewed
                              ELSE skewed \cup {builder[p].digest}
        BY <2>3, <3>1, <3>3, WriteCacheFacts
      <3> QED BY <2>3, <3>2, <3>3 DEF WriteCache
    <2>4. CASE CleanBackup(p) \/ Look(p) \/ Move(p) \/ Rescue(p) \/ Restore(p) \/ Discard(p)
               \/ Kill(p)
      BY <2>4 DEF CleanBackup, Look, Move, Rescue, Restore, Discard, Kill
    <2>5. CASE Install(p) BY <1>0, <2>5 DEF Install
    <2>6. CASE Cleanup(p) BY <1>0, <2>6, HalfFacts DEF Cleanup
    <2> QED BY <2>1, <2>2, <2>3, <2>4, <2>5, <2>6 DEF Builder
  <1>5. Sound(output)' BY <1>0, <1>1, <1>2, <1>3 DEF CacheInv, Sound
  <1>6. Sound(backup[p])' BY <1>0, <1>1, <1>2, <1>3 DEF CacheInv, Sound
  <1>7. Sound(staged[p])'
    <2>1. CASE staged'[p] \in {Absent, Empty} BY <1>2, <2>1 DEF Sound
    <2>2. CASE \/ staged'[p] = staged[p]
               \/ staged[p] # Absent /\ staged'[p] # Absent
                     /\ staged'[p].cache = staged[p].cache
      BY <1>0, <1>1, <2>2 DEF CacheInv, Sound
    <2>3. CASE /\ builder[p].code \in Versions /\ builder[p].digest \in Versions
               /\ staged'[p] = Built(builder[p].code, builder[p].digest)
               /\ skewed' = IF builder[p].code = builder[p].digest THEN skewed
                            ELSE skewed \cup {builder[p].digest}
      <3>1. PICK c \in Versions, d \in Versions : c = builder[p].code /\ d = builder[p].digest
        BY <2>3
      <3>2. staged'[p].cache = [digest |-> d, built |-> c] BY <2>3, <3>1, BuiltFacts
      <3> QED BY <2>3, <3>1, <3>2 DEF Sound
    <2> QED BY <1>4, <2>1, <2>2, <2>3
  <1>8. ASSUME NEW q \in Builders \ {p} PROVE Sound(staged[q])' /\ Sound(backup[q])'
    BY <1>0, <1>1, BuilderDirs DEF CacheInv, Sound
  <1> QED BY <1>5, <1>6, <1>7, <1>8 DEF CacheInv

-----------------------------------------------------------------------------
(* The places of the directories. *)

LEMMA WholeFacts ==
  ASSUME ResourceIInv, NEW p \in Builders, Step(p) \in Replacing
  PROVE  Whole(staged[p]) /\ staged[p] # Absent
  <1>1. /\ builder[p].code \in Versions /\ builder[p].digest \in Versions
        /\ staged[p] = Built(builder[p].code, builder[p].digest)
    BY DEF ResourceIInv, LocalInv, LocalOK, Replacing, Inside, Ended
  <1>2. PICK c \in Versions, d \in Versions : c = builder[p].code /\ d = builder[p].digest
    BY <1>1
  <1>3. Whole(Built(c, d)) /\ Built(c, d) # Absent BY BuiltFacts
  <1> QED BY <1>1, <1>2, <1>3

Quiet(p) == \/ Digest(p) \/ ReadCache(p) \/ ReadArtifact(p) \/ Stage(p)
            \/ BuildRevision(p) \/ WriteCache(p)

\* Until it replaces the directory, a builder touches only its staged one.
LEMMA QuietFacts ==
  ASSUME ResourceIInv, NEW p \in Builders, Quiet(p)
  PROVE  /\ UNCHANGED <<output, backup, mishaps, orphan>>
         /\ Step(p) \in {"digest", "cache", "artifacts", "stage", "build"}
         /\ Step(p)' \in {"cache", "artifacts", "stage", "build", "cleanup", "clean_backup",
                          "reused", "failed"}
         /\ Step(p)' \in {"cache", "artifacts", "stage", "build", "cleanup", "clean_backup",
                          "failed"} \/ ReadArtifact(p)
         /\ \/ Step(p)' \in {"build", "cleanup", "clean_backup"}
            \/ staged' = staged /\ Step(p) # "build"
  <1> USE DEF dirVars, cargoVars, history, faultVars
  <1>0. TypeOK /\ builder[p] \in Locals /\ builder \in [Builders -> Locals]
    BY DEF ResourceIInv, TypeOK
  <1>1. CASE Digest(p) BY <1>0, <1>1 DEF Digest, Step, Locals
  <1>2. CASE ReadCache(p)
    <2>1. CASE output # Absent /\ output.cache.digest = builder[p].digest
      BY <1>0, <1>2, <2>1 DEF ReadCache, Step, Locals
    <2>2. CASE ~(output # Absent /\ output.cache.digest = builder[p].digest)
      BY <1>0, <1>2, <2>2, GotoFacts DEF ReadCache, Running
    <2> QED BY <2>1, <2>2
  <1>3. CASE ReadArtifact(p) BY <1>0, <1>3, CheckedFacts DEF ReadArtifact
  <1>4. CASE Stage(p) BY <1>0, <1>4, EndsFacts DEF Stage, Fails, Ended, Step, Locals
  <1>5. CASE BuildRevision(p)
    <2>1. CASE Goto(p, "cleanup")
      BY <1>0, <1>5, <2>1, GotoFacts DEF BuildRevision, Written, Fails, Running
    <2>2. CASE Written(p, First(builder[p].todo)) /\ UNCHANGED faultVars
      <3>1. builder'[p].step = builder[p].step BY <1>0, <2>2 DEF Written, Locals
      <3> QED BY <1>5, <2>2, <3>1 DEF BuildRevision, Step
    <2> QED BY <1>5, <2>1, <2>2 DEF BuildRevision
  <1>6. CASE WriteCache(p)
    BY <1>0, <1>6, GotoFacts DEF WriteCache, Fails, Running, Replacing
  <1> QED BY <1>1, <1>2, <1>3, <1>4, <1>5, <1>6 DEF Quiet

\* Where the steps of replace_directory and the clean-up lead.
LEMMA ReplaceFacts ==
  ASSUME ResourceIInv, NEW p \in Builders
  PROVE  /\ CleanBackup(p) => Step(p)' \in {"look", "cleanup"}
         /\ Look(p) => Step(p)' = IF output # Absent THEN "move" ELSE "install"
         /\ Move(p) => Step(p)' \in {"install", "cleanup"}
         /\ Install(p) => Step(p)' \in {"discard", "rescue"}
         /\ Rescue(p) => Step(p)' \in {"restore", "cleanup"}
         /\ Restore(p) => Step(p)' = "cleanup"
         /\ Discard(p) => Step(p)' \in {"built", "failed"}
         /\ Cleanup(p) => Step(p)' = "failed"
         /\ Kill(p) => Step(p)' = "off"
         /\ Start(p) => Step(p)' = "digest"
  <1>0. TypeOK BY DEF ResourceIInv
  <1>1. /\ CleanBackup(p) => Step(p)' \in {"look", "cleanup"}
        /\ Look(p) => Step(p)' = IF output # Absent THEN "move" ELSE "install"
        /\ Move(p) => Step(p)' \in {"install", "cleanup"}
    BY <1>0, GotoFacts DEF CleanBackup, Look, Move, Running, Replacing, Inside
  <1>2. /\ Install(p) => Step(p)' \in {"discard", "rescue"}
        /\ Rescue(p) => Step(p)' \in {"restore", "cleanup"}
        /\ Restore(p) => Step(p)' = "cleanup"
    BY <1>0, GotoFacts DEF Install, Rescue, Restore, Running, Replacing, Inside
  <1>3. /\ Discard(p) => Step(p)' \in {"built", "failed"}
        /\ Cleanup(p) => Step(p)' = "failed"
        /\ Kill(p) => Step(p)' = "off"
    BY <1>0, EndsFacts DEF Discard, Cleanup, Kill, Ended
  <1>4. Start(p) => Step(p)' = "digest" BY <1>0 DEF Start, At, Step, TypeOK
  <1> QED BY <1>1, <1>2, <1>3, <1>4

LEMMA BuilderCases ==
  ASSUME NEW p, Builder(p)
  PROVE  \/ Start(p) \/ Quiet(p) \/ CleanBackup(p) \/ Look(p) \/ Move(p) \/ Install(p)
         \/ Rescue(p) \/ Restore(p) \/ Discard(p) \/ Cleanup(p) \/ Kill(p)
  BY DEF Builder, Quiet

\* The steps of others are as they were.
LEMMA OtherSteps ==
  ASSUME ResourceIInv, NEW p \in Builders, Builder(p)
  PROVE  \A q \in Builders \ {p} :
             Step(q)' = Step(q) /\ staged'[q] = staged[q] /\ backup'[q] = backup[q]
  BY BuilderLocals, BuilderDirs DEF Step

LEMMA BuilderBackups ==
  ASSUME ResourceIInv, NEW p \in Builders, Builder(p)
  PROVE  BackupInv'
  <1> USE DEF dirVars, cargoVars, history, faultVars, Inside
  <1> DEFINE OK(s, b) == /\ s \in {"look", "move"} => b = Absent
                         /\ found # "damaged" /\ s \in Inside => b = Absent \/ Whole(b)
  <1>0. /\ BackupInv /\ OutputIsWhole /\ backup \in [Builders -> Dirs] /\ found' = found
        /\ OK(Step(p), backup[p])
    BY BuilderFrame DEF ResourceIInv, TypeOK, BackupInv
  <1>1. OK(Step(p)', backup'[p])
    <2>1. CASE Start(p) BY <2>1, ReplaceFacts
    <2>2. CASE Quiet(p) BY <2>2, QuietFacts
    <2>3. CASE CleanBackup(p)
      <3>1. Step(p)' = "cleanup" \/ backup'[p] = Absent
        BY <1>0, <2>3, ReplaceFacts, GotoFacts DEF CleanBackup, Running, ResourceIInv
      <3> QED BY <2>3, <3>1, ReplaceFacts
    <2>4. CASE Look(p) BY <1>0, <2>4, ReplaceFacts DEF Look
    <2>5. CASE Move(p)
      <3>1. Step(p)' = "cleanup" \/ (output # Absent /\ backup'[p] = output)
        BY <1>0, <2>5, ReplaceFacts, GotoFacts DEF Move, Running, ResourceIInv
      <3> QED BY <1>0, <2>5, <3>1, ReplaceFacts DEF OutputIsWhole
    <2>6. CASE Install(p) BY <1>0, <2>6, ReplaceFacts DEF Install
    <2>7. CASE Rescue(p) BY <1>0, <2>7, ReplaceFacts DEF Rescue
    <2>8. CASE Restore(p) \/ Discard(p) \/ Cleanup(p) \/ Kill(p) BY <2>8, ReplaceFacts
    <2> QED BY <2>1, <2>2, <2>3, <2>4, <2>5, <2>6, <2>7, <2>8, BuilderCases
  <1>2. \A q \in Builders \ {p} : OK(Step(q)', backup'[q])
    BY <1>0, OtherSteps DEF BackupInv
  <1> QED BY <1>0, <1>1, <1>2 DEF BackupInv, Whole

LEMMA BuilderOutput ==
  ASSUME ResourceIInv, NEW p \in Builders, Builder(p)
  PROVE  OutputIsWhole'
  <1> USE DEF dirVars, cargoVars, history, faultVars, Inside
  <1>0. /\ BackupInv /\ OutputIsWhole /\ backup \in [Builders -> Dirs] /\ found' = found
    BY BuilderFrame DEF ResourceIInv, TypeOK, BackupInv
  <1>1. output' \in {output, Absent} \/ Install(p) \/ Restore(p)
    <2>1. CASE Start(p) \/ CleanBackup(p) \/ Look(p) \/ Move(p)
      BY <2>1 DEF Start, CleanBackup, Look, Move
    <2>2. CASE Rescue(p) \/ Discard(p) \/ Cleanup(p) \/ Kill(p)
      BY <2>2 DEF Rescue, Discard, Cleanup, Kill
    <2> QED BY <2>1, <2>2, QuietFacts, BuilderCases
  <1>2. CASE Install(p)
    <2>1. output' = staged[p] \/ output' = output BY <1>2 DEF Install
    <2>2. Whole(staged[p]) BY <1>2, WholeFacts DEF Install, Replacing
    <2> QED BY <1>0, <2>1, <2>2 DEF OutputIsWhole, Whole
  <1>3. CASE Restore(p)
    <2>1. output' = backup[p] \/ output' = output BY <1>3 DEF Restore
    <2>2. found # "damaged" => backup[p] = Absent \/ Whole(backup[p])
      BY <1>0, <1>3 DEF Restore, BackupInv
    <2> QED BY <1>0, <2>1, <2>2 DEF OutputIsWhole, Whole
  <1>4. CASE output' \in {output, Absent} BY <1>0, <1>4 DEF OutputIsWhole, Whole
  <1> QED BY <1>1, <1>2, <1>3, <1>4

\* A builder that may have taken the output away is the one that still holds it.
LEMMA BuilderMissing ==
  ASSUME ResourceIInv, NEW p \in Builders, Builder(p)
  PROVE  MissingOnlyInside'
  <1> USE DEF dirVars, cargoVars, history, faultVars, Inside
  <1> DEFINE Holds(s, b) == s \in Inside /\ b # Absent
             Cause(m) == m \cap {"killed", "unrestored"} # {}
  <1>0. /\ MissingOnlyInside /\ backup \in [Builders -> Dirs] /\ found' = found
        /\ TypeOK
    BY BuilderFrame DEF ResourceIInv, TypeOK
  <1> SUFFICES ASSUME output' = Absent, found # "none"
               PROVE  Cause(mishaps') \/ \E q \in Builders : Holds(Step(q)', backup'[q])
    BY <1>0 DEF MissingOnlyInside
  <1>1. mishaps \subseteq mishaps'
    <2>1. CASE Start(p) \/ CleanBackup(p) \/ Look(p) \/ Move(p)
      BY <2>1 DEF Start, CleanBackup, Look, Move, Fails
    <2>2. CASE Install(p) \/ Rescue(p) \/ Restore(p)
      BY <2>2 DEF Install, Rescue, Restore, Fails
    <2>3. CASE Discard(p) \/ Cleanup(p) \/ Kill(p)
      BY <2>3 DEF Discard, Cleanup, Kill, Fails
    <2> QED BY <2>1, <2>2, <2>3, QuietFacts, BuilderCases
  <1>2. CASE output # Absent
    <2>1. Move(p)
      <3>1. CASE Start(p) \/ CleanBackup(p) \/ Look(p) \/ Quiet(p)
        BY <1>2, <3>1, QuietFacts DEF Start, CleanBackup, Look
      <3>2. CASE Rescue(p) \/ Restore(p) \/ Discard(p) \/ Cleanup(p) \/ Kill(p)
        BY <1>2, <3>2 DEF Rescue, Restore, Discard, Cleanup, Kill
      <3>3. CASE Install(p) BY <1>2, <3>3 DEF Install
      <3> QED BY <3>1, <3>2, <3>3, BuilderCases
    <2>2. Step(p)' = "install" /\ backup'[p] = output
      BY <1>0, <1>2, <2>1, GotoFacts DEF Move, Running, Replacing
    <2> QED BY <1>2, <2>2
  <1>3. CASE output = Absent /\ Cause(mishaps) BY <1>1, <1>3
  <1>4. CASE output = Absent /\ ~Cause(mishaps)
    <2>1. PICK q \in Builders : Holds(Step(q), backup[q])
      BY <1>0, <1>4 DEF MissingOnlyInside
    <2>2. CASE q # p
      <3>1. Step(q)' = Step(q) /\ backup'[q] = backup[q] BY <2>2, OtherSteps
      <3> QED BY <2>1, <3>1
    <2>3. CASE q = p
      <3>1. CASE Install(p)
        <4>1. staged[p] # Absent BY <3>1, WholeFacts DEF Install, Replacing
        <4>2. Step(p)' = "rescue" /\ backup' = backup
          BY <1>0, <1>4, <3>1, <4>1, GotoFacts DEF Install, Running, Replacing
        <4> QED BY <2>1, <2>3, <4>2
      <3>2. CASE Rescue(p)
        <4>1. Step(p)' = "restore" /\ backup' = backup
          BY <1>0, <1>4, <2>1, <2>3, <3>2, GotoFacts DEF Rescue, Running, Replacing
        <4> QED BY <2>1, <2>3, <4>1
      <3>3. CASE Restore(p)
        <4>1. output' = backup[p] \/ "unrestored" \in mishaps'
          BY <1>4, <3>3 DEF Restore, Fails
        <4> QED BY <2>1, <2>3, <4>1
      <3>4. CASE Kill(p)
        <4>1. "killed" \in mishaps' BY <3>4 DEF Kill, Fails
        <4> QED BY <4>1
      <3>5. CASE Start(p) \/ Quiet(p) \/ CleanBackup(p) \/ Look(p) \/ Move(p) \/ Discard(p)
                 \/ Cleanup(p)
        BY <2>1, <2>3, <3>5, QuietFacts
           DEF Start, CleanBackup, Look, Move, Discard, Cleanup, Ended
      <3> QED BY <3>1, <3>2, <3>3, <3>4, <3>5, BuilderCases
    <2> QED BY <2>2, <2>3
  <1> QED BY <1>2, <1>3, <1>4

LEMMA BuilderCause ==
  ASSUME ResourceIInv, NEW p \in Builders, Builder(p)
  PROVE  CauseInv'
  <1> USE DEF dirVars, cargoVars, history, faultVars, Inside
  <1> DEFINE OK(s, st, b) ==
               /\ st # Absent => s \in {"build", "cleanup"} \cup Replacing
               /\ b # Absent => s \in {"discard"} \cup Inside
  <1>0. /\ CauseInv /\ BackupInv /\ TypeOK /\ staged \in [Builders -> Dirs]
        /\ backup \in [Builders -> Dirs]
    BY DEF ResourceIInv, TypeOK
  <1>1. mishaps' = {} => mishaps = {}
    <2>1. CASE Start(p) \/ CleanBackup(p) \/ Look(p) \/ Move(p)
      BY <2>1 DEF Start, CleanBackup, Look, Move, Fails
    <2>2. CASE Install(p) \/ Rescue(p) \/ Restore(p)
      BY <2>2 DEF Install, Rescue, Restore, Fails
    <2>3. CASE Discard(p) \/ Cleanup(p) \/ Kill(p)
      BY <2>3 DEF Discard, Cleanup, Kill, Fails
    <2> QED BY <2>1, <2>2, <2>3, QuietFacts, BuilderCases
  <1>2. ASSUME mishaps' = {}, mishaps = {}
        PROVE  OK(Step(p)', staged'[p], backup'[p])
    <2>0. OK(Step(p), staged[p], backup[p]) BY <1>0, <1>2 DEF CauseInv
    <2>1. CASE Start(p) BY <1>0, <2>0, <2>1, ReplaceFacts DEF Start, Ended
    <2>2. CASE Quiet(p) BY <1>0, <2>0, <2>2, QuietFacts DEF Replacing
    <2>3. CASE CleanBackup(p)
      BY <1>0, <1>2, <2>0, <2>3, ReplaceFacts DEF CleanBackup, Fails, Replacing
    <2>4. CASE Look(p) BY <1>0, <2>0, <2>4, ReplaceFacts DEF Look, Replacing
    <2>5. CASE Move(p)
      <3>1. backup[p] = Absent BY <1>0, <2>5 DEF BackupInv, Move
      <3>2. staged' = staged /\ (Step(p)' = "install" \/ backup' = backup)
        BY <1>0, <2>5, GotoFacts DEF Move, Running, Replacing
      <3> QED BY <2>0, <2>5, <3>1, <3>2, ReplaceFacts DEF Replacing
    <2>6. CASE Install(p)
      <3>1. /\ backup' = backup /\ (staged'[p] = Absent \/ Step(p)' = "rescue")
        BY <1>0, <2>6, GotoFacts DEF Install, Running, Replacing
      <3> QED BY <2>0, <2>6, <3>1, ReplaceFacts DEF Replacing
    <2>7. CASE Rescue(p)
      <3>1. staged' = staged /\ backup' = backup
            /\ (Step(p)' = "restore" \/ backup[p] = Absent)
        BY <1>0, <1>2, <2>7, GotoFacts DEF Rescue, Running, Replacing
      <3> QED BY <2>0, <2>7, <3>1, ReplaceFacts DEF Replacing
    <2>8. CASE Restore(p)
      <3>1. staged' = staged /\ backup'[p] = Absent
        BY <1>0, <1>2, <2>8 DEF Restore, Fails
      <3> QED BY <2>8, <3>1, ReplaceFacts
    <2>9. CASE Discard(p)
      <3>1. staged' = staged /\ backup'[p] = Absent
        BY <1>0, <1>2, <2>9 DEF Discard, Fails
      <3>2. staged[p] = Absent BY <2>0, <2>9 DEF Discard, Replacing
      <3> QED BY <3>1, <3>2
    <2>10. CASE Cleanup(p)
      <3>1. staged'[p] = Absent /\ backup' = backup
        BY <1>0, <1>2, <2>10 DEF Cleanup, Fails
      <3>2. backup[p] = Absent BY <2>0, <2>10 DEF Cleanup
      <3> QED BY <3>1, <3>2
    <2>11. CASE Kill(p) BY <1>2, <2>11 DEF Kill, Fails
    <2> QED BY <2>1, <2>2, <2>3, <2>4, <2>5, <2>6, <2>7, <2>8, <2>9, <2>10, <2>11, BuilderCases
  <1>3. ASSUME mishaps = {}
        PROVE  \A q \in Builders \ {p} : OK(Step(q)', staged'[q], backup'[q])
    BY <1>0, <1>3, OtherSteps DEF CauseInv
  <1> QED BY <1>1, <1>2, <1>3 DEF CauseInv

LEMMA BuilderCopy ==
  ASSUME ResourceIInv, NEW p \in Builders, Builder(p)
  PROVE  CopyInv'
  <1> USE DEF dirVars, cargoVars, history, faultVars, Inside
  <1> DEFINE Copy(s, st, b) == \/ s \in Inside /\ Whole(b)
                               \/ s = "off" /\ Whole(st)
  <1>0. /\ CopyInv /\ BackupInv /\ OutputIsWhole /\ TypeOK /\ found' = found
        /\ staged \in [Builders -> Dirs] /\ backup \in [Builders -> Dirs]
        /\ OutputIsWhole'
    BY BuilderFrame, BuilderOutput DEF ResourceIInv, TypeOK
  <1> SUFFICES ASSUME found = "whole", "unrestored" \notin mishaps'
               PROVE  \/ Whole(output') \/ orphan'
                      \/ \E q \in Builders : Copy(Step(q)', staged'[q], backup'[q])
    BY <1>0 DEF CopyInv, Whole
  <1>1. "unrestored" \notin mishaps
    <2>1. CASE Start(p) \/ CleanBackup(p) \/ Look(p) \/ Move(p)
      BY <2>1 DEF Start, CleanBackup, Look, Move, Fails
    <2>2. CASE Install(p) \/ Rescue(p) \/ Restore(p)
      BY <2>2 DEF Install, Rescue, Restore, Fails
    <2>3. CASE Discard(p) \/ Cleanup(p) \/ Kill(p)
      BY <2>3 DEF Discard, Cleanup, Kill, Fails
    <2> QED BY <2>1, <2>2, <2>3, QuietFacts, BuilderCases
  <1>2. /\ output # Absent => Whole(output)
        /\ output' # Absent => Whole(output')
    BY <1>0 DEF OutputIsWhole, Whole
  <1>3. orphan => orphan'
    <2>1. CASE Start(p) BY <2>1 DEF Start
    <2>2. CASE CleanBackup(p) \/ Look(p) \/ Move(p) \/ Install(p) \/ Rescue(p) \/ Restore(p)
               \/ Discard(p) \/ Cleanup(p) \/ Kill(p)
      BY <2>2 DEF CleanBackup, Look, Move, Install, Rescue, Restore, Discard, Cleanup, Kill
    <2> QED BY <2>1, <2>2, QuietFacts, BuilderCases
  <1>4. CASE output' # Absent BY <1>2, <1>4
  <1>5. CASE output # Absent /\ output' = Absent
    <2>1. Move(p)
      <3>1. CASE Start(p) \/ CleanBackup(p) \/ Look(p) \/ Quiet(p)
        BY <1>5, <3>1, QuietFacts DEF Start, CleanBackup, Look
      <3>2. CASE Rescue(p) \/ Restore(p) \/ Discard(p) \/ Cleanup(p) \/ Kill(p)
        BY <1>5, <3>2 DEF Rescue, Restore, Discard, Cleanup, Kill
      <3>3. CASE Install(p) BY <1>5, <3>3 DEF Install
      <3> QED BY <3>1, <3>2, <3>3, BuilderCases
    <2>2. Step(p)' = "install" /\ backup'[p] = output
      BY <1>0, <1>5, <2>1, GotoFacts DEF Move, Running, Replacing
    <2> QED BY <1>2, <1>5, <2>2
  <1>6. CASE output = Absent /\ output' = Absent /\ ~orphan
    <2>1. PICK q \in Builders : Copy(Step(q), staged[q], backup[q])
      <3>1. ~Whole(output) BY <1>6 DEF Whole
      <3> QED BY <1>0, <1>1, <1>6, <3>1 DEF CopyInv
    <2>2. CASE q # p
      <3>1. Step(q)' = Step(q) /\ staged'[q] = staged[q] /\ backup'[q] = backup[q]
        BY <2>2, OtherSteps
      <3> QED BY <2>1, <3>1
    <2>3. CASE q = p
      <3>1. CASE Start(p)
        <4>1. Step(p) \notin Inside BY <3>1 DEF Start, Ended
        <4>2. Whole(staged[p]) BY <2>1, <2>3, <4>1
        <4> QED BY <3>1, <4>2 DEF Start
      <3>2. CASE Install(p)
        <4>1. staged[p] # Absent BY <3>2, WholeFacts DEF Install, Replacing
        <4>2. Step(p)' = "rescue" /\ backup' = backup
          BY <1>0, <1>6, <3>2, <4>1, GotoFacts DEF Install, Running, Replacing
        <4>3. Whole(backup[p]) BY <2>1, <2>3, <3>2 DEF Install
        <4> QED BY <4>2, <4>3
      <3>3. CASE Rescue(p)
        <4>1. Whole(backup[p]) /\ backup[p] # Absent BY <2>1, <2>3, <3>3 DEF Rescue, Whole
        <4>2. Step(p)' = "restore" /\ backup' = backup
          BY <1>0, <1>6, <3>3, <4>1, GotoFacts DEF Rescue, Running, Replacing
        <4> QED BY <4>1, <4>2
      <3>4. CASE Restore(p)
        <4>1. Whole(backup[p]) /\ backup[p] # Absent BY <2>1, <2>3, <3>4 DEF Restore, Whole
        <4>2. output' = backup[p] BY <1>6, <3>4 DEF Restore, Fails
        <4> QED BY <1>6, <4>1, <4>2
      <3>5. CASE Kill(p)
        <4>1. Step(p) \in Inside BY <2>1, <2>3, <3>5 DEF Kill, Ended
        <4>2. Whole(staged[p]) BY <4>1, WholeFacts DEF Replacing
        <4>3. Step(p)' = "off" /\ staged' = staged BY <3>5, ReplaceFacts DEF Kill
        <4> QED BY <4>2, <4>3
      <3>6. CASE Quiet(p) \/ CleanBackup(p) \/ Look(p) \/ Move(p) \/ Discard(p) \/ Cleanup(p)
        BY <2>1, <2>3, <3>6, QuietFacts DEF CleanBackup, Look, Move, Discard, Cleanup
      <3> QED BY <3>1, <3>2, <3>3, <3>4, <3>5, <3>6, BuilderCases
    <2> QED BY <2>2, <2>3
  <1> QED BY <1>3, <1>4, <1>5, <1>6

LEMMA BuilderReuse ==
  ASSUME ResourceIInv, NEW p \in Builders, Builder(p)
  PROVE  ReuseIsCurrent'
  <1> DEFINE OK(s, b) == s = "reused" /\ b.digest \notin skewed' => b.read = {b.digest}
  <1>1. ReuseIsCurrent /\ LocalOK(p) /\ skewed \subseteq skewed'
    BY BuilderSkews DEF ResourceIInv, LocalInv
  <1>2. OK(Step(p)', builder'[p])
    <2>1. CASE ReadArtifact(p)
      <3>1. /\ builder[p].read \subseteq {builder[p].expected}
            /\ builder[p].digest \notin skewed => builder[p].expected = builder[p].digest
        BY <1>1, <2>1 DEF ReadArtifact, LocalOK
      <3> QED BY <1>1, <2>1, <3>1, CheckedFacts
    <2>2. CASE ~ReadArtifact(p)
      <3>1. Step(p)' # "reused" BY <2>2, QuietFacts, ReplaceFacts, BuilderCases
      <3> QED BY <3>1
    <2> QED BY <2>1, <2>2
  <1>3. \A q \in Builders \ {p} : OK(Step(q)', builder'[q])
    BY <1>1, BuilderLocals DEF ReuseIsCurrent, Step
  <1> QED BY <1>2, <1>3 DEF ReuseIsCurrent

LEMMA BuilderStep ==
  ASSUME ResourceIInv, NEW p \in Builders, Builder(p)
  PROVE  ResourceIInv'
  <1>1. CargoInv' BY BuilderFrame DEF ResourceIInv, CargoInv, EmbeddedPairs
  <1> QED BY <1>1, BuilderTypes, BuilderLocal, BuilderCaches, BuilderBackups, BuilderCause,
             BuilderCopy, BuilderOutput, BuilderMissing, BuilderReuse DEF ResourceIInv

-----------------------------------------------------------------------------
(* The other steps, and the theorems. *)

LEMMA CargoStep ==
  ASSUME ResourceIInv, CargoList \/ CargoManifest \/ CargoBit
  PROVE  UNCHANGED <<inputs, builder, dirVars, history>> /\ CargoInv'
         /\ cargo' \in {"off", "manifest", "bit", "done", "panicked"}
         /\ pending' \subseteq Revisions /\ manifest' \in Versions \cup {Missing}
         /\ embedded' \in [Revisions -> (Versions \cup {Missing}) \X (Versions \cup {Missing})]
  <1>0. /\ TypeOK /\ CargoInv /\ output \in Dirs BY DEF ResourceIInv, TypeOK
  <1>1. CASE CargoPanics /\ UNCHANGED <<inputs, builder, dirVars, history>>
    BY <1>1 DEF CargoPanics, CargoInv, EmbeddedPairs
  <1>2. CASE CargoList /\ cargo' = "manifest"
    BY <1>0, <1>2, RevisionAssumption DEF CargoList, CargoPanics, CargoInv, EmbeddedPairs, TypeOK
  <1>3. CASE CargoManifest /\ cargo' = "bit"
    <2>1. First(pending) \in Revisions
      BY <1>0, <1>3, FirstFacts DEF CargoManifest, CargoInv, TypeOK
    <2>2. output # Absent => output.art[<<First(pending), "json">>] \in Versions \cup {Missing}
      BY <1>0, <2>1, DirFacts, FilesFacts
    <2>3. manifest' \in Versions
      BY <1>3, <2>2 DEF CargoManifest, CargoPanics
    <2> QED BY <1>0, <1>3, <2>3 DEF CargoManifest, CargoPanics, CargoInv, EmbeddedPairs, TypeOK
  <1>4. CASE CargoBit /\ cargo' \in {"done", "manifest"}
    <2> DEFINE r == First(pending)
    <2>1. r \in Revisions /\ manifest \in Versions
      BY <1>0, <1>4, FirstFacts DEF CargoBit, CargoInv, TypeOK
    <2>2. /\ embedded' = [embedded EXCEPT ![r] = <<manifest, manifest>>]
          /\ pending' = pending \ {r} /\ manifest' = Missing
          /\ cargo' = IF pending' = {} THEN "done" ELSE "manifest"
          /\ UNCHANGED <<inputs, builder, dirVars, history>>
      BY <1>4 DEF CargoBit, CargoPanics
    <2>3. embedded \in [Revisions -> (Versions \cup {Missing}) \X (Versions \cup {Missing})]
      BY <1>0 DEF TypeOK
    <2>4. embedded' \in [Revisions -> (Versions \cup {Missing}) \X (Versions \cup {Missing})]
      BY <2>1, <2>2, <2>3
    <2>5. EmbeddedPairs' BY <1>0, <2>1, <2>2, <2>3 DEF CargoInv, EmbeddedPairs
    <2> QED BY <1>0, <2>1, <2>2, <2>4, <2>5 DEF CargoInv, TypeOK
  <1> QED BY <1>1, <1>2, <1>3, <1>4 DEF CargoList, CargoManifest, CargoBit

LEMMA NextResource == ResourceIInv /\ [Next]_vars => ResourceIInv'
  <1> SUFFICES ASSUME ResourceIInv, [Next]_vars PROVE ResourceIInv'
    OBVIOUS
  <1> USE DEF vars, dirVars, cargoVars, history, faultVars
  <1>1. CASE UNCHANGED <<builder, dirVars, history>> /\ CargoInv' /\ TypeOK'
    BY <1>1 DEF ResourceIInv, LocalInv, LocalOK, Step, CacheInv, Sound, BackupInv, CauseInv,
                CopyInv, Whole, OutputIsWhole, MissingOnlyInside, ReuseIsCurrent
  <1>2. CASE Edit
    <2>1. inputs' \in Versions BY <1>2 DEF Edit
    <2> QED BY <1>1, <1>2, <2>1 DEF Edit, TypeOK, ResourceIInv, CargoInv, EmbeddedPairs
  <1>3. CASE CargoList \/ CargoManifest \/ CargoBit
    <2>1. TypeOK' BY <1>3, CargoStep DEF TypeOK, ResourceIInv
    <2> QED BY <1>1, <1>3, <2>1, CargoStep
  <1>4. CASE \E p \in Builders : Builder(p) BY <1>4, BuilderStep
  <1>5. CASE UNCHANGED vars
    BY <1>1, <1>5 DEF TypeOK, ResourceIInv, CargoInv, EmbeddedPairs
  <1> QED BY <1>2, <1>3, <1>4, <1>5 DEF Next, Finished

THEOREM ResourceInvariance == Spec => []ResourceIInv
  <1> QED BY InitResource, NextResource, PTL DEF Spec

(* What a builder is about to install is its own whole build, directories are
   left behind only for a cause, and manifest and bitstream of the program
   belong together. *)
THEOREM BuilderCorrect == Spec => []BuilderInv
  <1>1. ResourceIInv => BuilderInv
    <2> SUFFICES ASSUME ResourceIInv PROVE BuilderInv
      OBVIOUS
    <2>1. LeftoversHaveCause
      BY DEF ResourceIInv, CauseInv, LeftoversHaveCause, Ended, Replacing, Inside
    <2> QED BY <2>1 DEF ResourceIInv, CargoInv, LocalInv, LocalOK, BuilderInv, Replacing, Inside
  <1> QED BY <1>1, ResourceInvariance, PTL

(* Whatever fails and whoever else builds, the output is absent or whole. *)
THEOREM OutputStaysWhole == Spec => []OutputIsWhole
  <1>1. ResourceIInv => OutputIsWhole BY DEF ResourceIInv
  <1> QED BY <1>1, ResourceInvariance, PTL

(* Resources that were there are missing only inside a replacement, or after a
   kill or a rescue that failed. *)
THEOREM MissingOnlyWhileReplaced == Spec => []MissingOnlyInside
  <1>1. ResourceIInv => MissingOnlyInside BY DEF ResourceIInv
  <1> QED BY <1>1, ResourceInvariance, PTL

(* However many builders are killed, a whole copy survives under some name. *)
THEOREM CopySurvives == Spec => []SomeCopySurvives
  <1>1. ResourceIInv => SomeCopySurvives BY DEF ResourceIInv, CopyInv, SomeCopySurvives
  <1> QED BY <1>1, ResourceInvariance, PTL

(* A cache check that succeeds has read files of one version, its digest's. *)
THEOREM ReuseCurrent == Spec => []ReuseIsCurrent
  <1>1. ResourceIInv => ReuseIsCurrent BY DEF ResourceIInv
  <1> QED BY <1>1, ResourceInvariance, PTL

===============================================================================
