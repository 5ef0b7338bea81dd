------------------------------ MODULE PatchTool ------------------------------
(***************************************************************************)
(* apply_patch and patch_check of the MCP tools (tools/patch.rs): one call *)
(* and the files it works on, with whatever else writes them meanwhile (an *)
(* editor, a command, a second call).                                      *)
(*                                                                         *)
(* A patch is a sequence of sections, one per file: an added file, an      *)
(* updated one with its hunks, a deleted one.  Every section is first      *)
(* applied in memory.  Then the files are copied into the memory of the    *)
(* call, each new content is put in a temporary file beside its target,    *)
(* and the targets are replaced one by one; when one of them fails the     *)
(* temporary files are removed and the copies are written back.            *)
(*                                                                         *)
(* A content is a sequence of lines; line ends, and the text of the patch  *)
(* itself, are left out.  A crash is a behaviour that stops: what is said  *)
(* of every state is said of the files a crash leaves.                     *)
(***************************************************************************)
EXTENDS Naturals, SequencesExt, FiniteSetsExt

CONSTANTS Path,      \* the files
          Protected, \* those below .git and .github
          Critical,  \* those that are deleted with confirm=true only
          Line,      \* the lines
          NoFile,    \* no file at a path; the staged content of a deletion
          Mismatch,  \* no file, or the lines of a hunk are not in it
          Patches,   \* the patches tried
          Windows,   \* an existing target is removed before the rename
          MaxFault,  \* bound: operations on files that fail
          MaxForeign \* bound: writes by others

VARIABLES disk,      \* the files
          temps,     \* the files with a temporary file beside them
          patch,     \* the call
          faults,    \* how many operations on files have failed
          start,     \* history: the files when the call began
          others,    \* history: the files others have written since then
          spoiled    \* history: a copy could not be read or written back

patchVars == <<disk, temps, patch, faults, start, others, spoiled>>

FileText == Seq(Line)

\* What a file holds that no patch has touched.
Untouched == {NoFile} \cup {<<l>> : l \in Line}

\* The lines of the first place that matches, from the beginning of the file
\* whatever the hunks before it did, are replaced; a hunk that only adds goes
\* to the beginning.
FindHunk(lines, old) ==
    {i \in 1 .. Len(lines) - Len(old) + 1 : SubSeq(lines, i, i + Len(old) - 1) = old}

ApplyHunk(lines, hunk) ==
    LET at == FindHunk(lines, hunk.old)
        n == Len(hunk.old)
    IN  IF at = {} THEN Mismatch
        ELSE LET i == IF hunk.old = <<>> THEN 1 ELSE Min(at)
             IN  SubSeq(lines, 1, i - 1) \o hunk.new \o SubSeq(lines, i + n, Len(lines))

ApplyHunks(lines, hunks) ==
    FoldLeft(LAMBDA done, hunk : IF done = Mismatch THEN done ELSE ApplyHunk(done, hunk),
             lines, hunks)

\* What a section makes of a file: the content to be staged.
Updated(section, content) ==
    IF section.kind = "add" THEN ApplyHunks(<<>>, section.hunks)
    ELSE IF content = NoFile THEN Mismatch
    ELSE IF section.kind = "delete" THEN NoFile
    ELSE ApplyHunks(content, section.hunks)

\* A patch is a sequence of sections, the content of an added file is a text,
\* and hunks make a text of a text.
PatchBounds ==
    /\ MaxFault \in Nat
    /\ Patches \subseteq Seq([path : Path, kind : {"add", "update", "delete"},
                              hunks : Seq([old : Seq(Line), new : Seq(Line)])])
    /\ \A s \in Patches : \A i \in DOMAIN s :
         /\ s[i].kind = "add" => ApplyHunks(<<>>, s[i].hunks) # NoFile
         /\ \A content \in Untouched :
              Updated(s[i], content) \in {NoFile, Mismatch} \cup FileText

ASSUME PatchAssumption == PatchBounds

-----------------------------------------------------------------------------
NoPatch == [pc |-> "idle", sections |-> <<>>, dry |-> FALSE, at |-> 1, staged |-> <<>>,
            order |-> <<>>, backup |-> <<>>, outcome |-> "none"]

PatchInit ==
    /\ disk \in [Path -> Untouched]
    /\ \A p \in Protected : disk[p] = NoFile
    /\ temps = {} /\ patch = NoPatch /\ faults = 0
    /\ start = disk /\ others = {} /\ spoiled = FALSE

Refused(sections, confirm) ==
    \/ sections = <<>>
    \/ \E i \in DOMAIN sections : sections[i].path \in Protected
    \/ ~confirm /\ \E i \in DOMAIN sections :
                      sections[i].kind = "delete" /\ sections[i].path \in Critical

BeginPatch(sections, dry, confirm) ==
    /\ patch.pc = "idle"
    /\ patch' = IF Refused(sections, confirm)
                THEN [NoPatch EXCEPT !.pc = "done", !.sections = sections, !.outcome = "error"]
                ELSE [NoPatch EXCEPT !.pc = "stage", !.sections = sections, !.dry = dry]
    /\ start' = disk
    /\ UNCHANGED <<disk, temps, faults, others, spoiled>>

With(f, p, content) == [q \in DOMAIN f \cup {p} |-> IF q = p THEN content ELSE f[q]]

Ended(outcome) == patch' = [patch EXCEPT !.pc = "done", !.outcome = outcome]

\* The next section is read and applied in memory.  What is staged for a path
\* replaces what an earlier section staged for it, without regard to it: each
\* section starts from the file on the disk.
StageSection ==
    LET section == patch.sections[patch.at]
        content == disk[section.path]
        staged == With(patch.staged, section.path, Updated(section, content))
    IN
    /\ patch.pc = "stage" /\ patch.at <= Len(patch.sections)
    /\ IF Updated(section, content) = Mismatch
       THEN Ended("error")
       ELSE patch' = [patch EXCEPT !.at = @ + 1, !.staged = staged]
    /\ UNCHANGED <<disk, temps, faults, start, others, spoiled>>

\* Every section applies.  The files are then taken in the order of a hash map,
\* the same one in both passes.
EndStaging ==
    /\ patch.pc = "stage" /\ patch.at > Len(patch.sections)
    /\ IF patch.dry THEN Ended("ok")
       ELSE \E order \in SetToSeqs(DOMAIN patch.staged) :
              patch' = [patch EXCEPT !.pc = "copy", !.at = 1, !.order = order]
    /\ UNCHANGED <<disk, temps, faults, start, others, spoiled>>

Target == patch.order[patch.at]
Content == patch.staged[Target]

\* On to the next file of this pass, or to what follows the pass.
Advance(next, call) ==
    IF patch.at < Len(patch.order) THEN [call EXCEPT !.at = @ + 1] ELSE next

CopyOf(content) == [patch EXCEPT !.backup = With(@, Target, content)]

\* First pass.  A file that cannot be read is copied as an empty one.
CopyFile ==
    /\ patch.pc = "copy"
    /\ Content = NoFile => disk[Target] # NoFile
    /\ \/ /\ LET call == CopyOf(disk[Target])
             IN  patch' = Advance([call EXCEPT !.pc = "write", !.at = 1], call)
          /\ UNCHANGED <<faults, spoiled>>
       \/ /\ faults < MaxFault /\ disk[Target] # NoFile
          /\ LET call == CopyOf(<<>>)
             IN  patch' = Advance([call EXCEPT !.pc = "write", !.at = 1], call)
          /\ faults' = faults + 1 /\ spoiled' = TRUE
    /\ temps' = IF Content = NoFile THEN temps ELSE temps \cup {Target}
    /\ UNCHANGED <<disk, start, others>>

\* A file whose text cannot be read, one to be deleted that is gone by now, or
\* a directory that cannot be made: the call returns at once, from the second
\* pass too, and leaves what it has done.
ReturnEarly ==
    /\ \/ /\ patch.pc = "stage" /\ patch.at <= Len(patch.sections)
          /\ patch.sections[patch.at].kind # "add"
          /\ faults < MaxFault /\ faults' = faults + 1
       \/ patch.pc \in {"copy", "write"} /\ Content = NoFile /\ disk[Target] = NoFile
          /\ UNCHANGED faults
       \/ patch.pc = "copy" /\ Content # NoFile /\ faults < MaxFault /\ faults' = faults + 1
    /\ Ended("error")
    /\ UNCHANGED <<disk, temps, start, others, spoiled>>

\* A temporary file that cannot be written (its target is copied by then), or
\* a target that cannot be removed or replaced: the temporary files are removed.
GiveUp ==
    /\ faults < MaxFault /\ faults' = faults + 1
    /\ \/ /\ patch.pc = "copy" /\ Content # NoFile
          /\ patch' = [CopyOf(disk[Target]) EXCEPT !.pc = "undo"]
       \/ /\ patch.pc \in {"write", "replace"}
          /\ Content = NoFile => disk[Target] # NoFile
          /\ patch' = [patch EXCEPT !.pc = "undo"]
    /\ temps' = {}
    /\ UNCHANGED <<disk, start, others, spoiled>>

\* Mutant of Restored: the files stay as they are.
Kept(p, broken) == disk[p]

\* The copies are written back, errors are ignored: such a file stays as it is,
\* or is empty.
Restored(p, broken) ==
    IF p \in DOMAIN patch.backup \ broken THEN patch.backup[p] ELSE disk[p]

RestoreBackups ==
    /\ patch.pc = "undo"
    /\ \E broken \in SUBSET DOMAIN patch.backup, empty \in SUBSET Path :
         /\ empty \subseteq {p \in broken : patch.backup[p] # NoFile}
         /\ Cardinality(broken) <= MaxFault - faults
         /\ disk' = [p \in Path |-> IF p \in empty THEN <<>> ELSE Restored(p, broken)]
         /\ faults' = faults + Cardinality(broken)
         /\ spoiled' = (spoiled \/ broken # {})
    /\ Ended("error")
    /\ UNCHANGED <<temps, start, others>>

WrittenAll(call) ==
    Advance([call EXCEPT !.pc = "done", !.outcome = "ok"], [call EXCEPT !.pc = "write"])

\* Second pass.
DeleteFile ==
    /\ patch.pc = "write" /\ Content = NoFile /\ disk[Target] # NoFile
    /\ disk' = [disk EXCEPT ![Target] = NoFile]
    /\ patch' = WrittenAll(patch)
    /\ UNCHANGED <<temps, faults, start, others, spoiled>>

RemoveTarget ==
    /\ patch.pc = "write" /\ Content # NoFile
    /\ disk' = IF Windows THEN [disk EXCEPT ![Target] = NoFile] ELSE disk
    /\ patch' = [patch EXCEPT !.pc = "replace"]
    /\ UNCHANGED <<temps, faults, start, others, spoiled>>

ReplaceFile ==
    /\ patch.pc = "replace"
    /\ disk' = [disk EXCEPT ![Target] = Content]
    /\ temps' = temps \ {Target}
    /\ patch' = WrittenAll(patch)
    /\ UNCHANGED <<faults, start, others, spoiled>>

\* Somebody else writes or removes a file.
WriteByOther(p) ==
    /\ patch.pc \notin {"idle", "done"} /\ Cardinality(others) < MaxForeign
    /\ p \notin Protected
    /\ \E c \in Untouched : c # disk[p] /\ disk' = [disk EXCEPT ![p] = c]
    /\ others' = others \cup {p}
    /\ UNCHANGED <<temps, patch, faults, start, spoiled>>

PatchNext ==
    \/ \E sections \in Patches, dry, confirm \in BOOLEAN : BeginPatch(sections, dry, confirm)
    \/ StageSection \/ EndStaging
    \/ CopyFile \/ ReturnEarly \/ GiveUp \/ RestoreBackups
    \/ DeleteFile \/ RemoveTarget \/ ReplaceFile
    \/ \E p \in Path : WriteByOther(p)

-----------------------------------------------------------------------------
PatchTypeOK ==
    /\ disk \in [Path -> {NoFile} \cup FileText]
    /\ temps \subseteq Path
    /\ patch.pc \in {"idle", "stage", "copy", "write", "replace", "undo", "done"}
    /\ patch.outcome \in {"none", "ok", "error"}
    /\ DOMAIN patch.backup \subseteq DOMAIN patch.staged /\ DOMAIN patch.staged \subseteq Path
    /\ faults \in 0 .. MaxFault
    /\ start \in [Path -> {NoFile} \cup FileText]
    /\ others \subseteq Path
    /\ spoiled \in BOOLEAN

\* Nothing is claimed of a file with a section that works on what an earlier one
\* made of it: StageSection loses the earlier one, although the description of
\* the tool calls a patch a transaction (tools/registry.rs).
Overlooked(p) ==
    \E i, j \in DOMAIN patch.sections :
        /\ i < j /\ patch.sections[j].kind # "add"
        /\ patch.sections[i].path = p /\ patch.sections[j].path = p

\* What the sections of any other file ask for, one after the other, said of the
\* file at the beginning of the call: all but the first are added files, each of
\* which replaces what was there, so the last one decides.
Wanted(p) ==
    LET mine == {i \in DOMAIN patch.sections : patch.sections[i].path = p}
    IN  IF mine = {} \/ patch.dry THEN start[p] ELSE Updated(patch.sections[Max(mine)], start[p])

\* A patch is applied whole or not at all.  A call that reports success has made
\* every file what its sections, one after the other, ask for, those that others
\* wrote meanwhile and the overlooked ones excepted, and left no temporary file;
\* one that reports an error has changed nothing, unless others wrote the files,
\* or a copy was lost; and in every state between, so after a crash too, a file
\* is the old one, the new one, or missing with its new content beside it, as
\* long as the copies are not being written back.
PatchIsWhole ==
    LET Told == {p \in Path \ others : ~Overlooked(p)} IN
    /\ patch.outcome = "ok" => temps = {} /\ \A p \in Told : disk[p] = Wanted(p)
    /\ patch.outcome = "error" /\ others = {} /\ ~spoiled => disk = start
    /\ patch.pc # "undo" /\ ~spoiled =>
         \A p \in Told :
           disk[p] \in {start[p], Wanted(p)} \/ (disk[p] = NoFile /\ p \in temps)
=============================================================================
