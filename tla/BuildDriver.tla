----------------------------- MODULE BuildDriver -----------------------------
(***************************************************************************)
(* libbpf-cargo's build driver (src/libbpf-cargo/src/build.rs):            *)
(* build_project takes the BPF programs metadata::get lists, rejects two   *)
(* that would share an object file (check_progs), then builds them one by  *)
(* one, stopping at the first error (try_for_each).  Building one object   *)
(* (BpfObjBuilder::build -> build_many) creates the out directory, a       *)
(* temporary directory and a libbpf Linker on the destination, extracts    *)
(* the libbpf headers, runs clang on the source, adds the result to the    *)
(* linker and links it into the destination.                               *)
(*                                                                         *)
(* Every step that talks to the file system, clang or libbpf may fail; the *)
(* model keeps which step failed and what the destination file then       *)
(* holds.  bpf_linker__new opens the destination with O_TRUNC, so from     *)
(* Linker::new on, a failure leaves it truncated ("junk"); nothing removes *)
(* it.  A source file is src/bpf/<stem>.bpf.c of a package (metadata::get *)
(* lists only those), so its file name is determined by its stem.         *)
(***************************************************************************)
EXTENDS Integers, Sequences, FiniteSets

CONSTANTS Dirs,     \* the source directories of the packages
          Stems,    \* file stems
          Outs,     \* output directories
          MaxObjs   \* the most programs metadata::get lists

\* An entry of to_compile: the source file dir/stem.bpf.c and its out dir.
Obj == [dir : Dirs, stem : Stems, out : Outs]

\* The object file of an entry: out/<file_stem>.o.
Dest(o) == <<o.out, o.stem>>
Dests == Outs \X Stems

\* What an object file holds: nothing, an earlier build's object, a
\* truncated file, or the object linked from source <<dir, stem>>.
\* (The three are 1-tuples so that TLC can compare them with a source.)
Source(o) == <<o.dir, o.stem>>
None == <<"none">>
Old == <<"old">>
Junk == <<"junk">>

\* The steps of building one object, in the code's order; each may fail.
Steps == <<"create_dir_all", "tempdir", "Linker::new", "tempdir headers",
           "extract headers", "spawn clang", "clang status", "add_file", "link">>
LinkerNew == 3
Built == Len(Steps) + 1    \* no step failed

VARIABLES to_compile,   \* the list metadata::get returned
          stage,        \* "start", "building", "done" or "err"
          i,            \* the entry try_for_each is at
          files,        \* files[d]: what object file d holds
          before        \* the object files before build_project ran

vars == <<to_compile, stage, i, files, before>>

(***************************************************************************)
(* check_progs: the key of an entry is out joined with the source's file   *)
(* name; a second entry with the same key is an error.                     *)
(***************************************************************************)
\* (CheckProgsBySource keys the entries on the source path instead.)
CheckProgsBySource(objs) ==
  Cardinality({<<objs[j].dir, objs[j].stem>> : j \in DOMAIN objs}) = Len(objs)

CheckProgs(objs) ==
  Cardinality({<<objs[j].out, objs[j].stem>> : j \in DOMAIN objs}) = Len(objs)

\* What building the entry leaves in its destination when step f fails (or
\* none does, f = Built): Linker::new may fail before or after its open.
DestAfter(o, old, f) ==
  CASE f = Built      -> {Source(o)}
    [] f < LinkerNew  -> {old}
    [] f = LinkerNew  -> {old, Junk}
    [] OTHER          -> {Junk}

Init ==
  /\ to_compile \in UNION {[1..n -> Obj] : n \in 0..MaxObjs}
  /\ files \in [Dests -> {None, Old}]
  /\ before = files
  /\ stage = "start"
  /\ i = 1

\* build_project up to the loop: metadata::get, the empty list, check_progs.
Start ==
  /\ stage = "start"
  /\ \/ stage' = "err"                  \* metadata::get failed
     \/ /\ stage' = IF to_compile # <<>> /\ CheckProgs(to_compile)
                    THEN "building" ELSE "err"
  /\ UNCHANGED <<to_compile, i, files, before>>

\* (BuildObjIgnoringLink drops the result of linker.link().)
BuildObjIgnoringLink ==
  /\ stage = "building"
  /\ i <= Len(to_compile)
  /\ \E f \in 1..Built :
       LET o == to_compile[i] IN
       /\ \E c \in DestAfter(o, files[Dest(o)], f) :
            files' = [files EXCEPT ![Dest(o)] = c]
       /\ IF f >= Len(Steps) THEN i' = i + 1 /\ UNCHANGED stage
          ELSE stage' = "err" /\ UNCHANGED i
  /\ UNCHANGED <<to_compile, before>>

\* One iteration of try_for_each: the destination name, create_dir_all and
\* BpfObjBuilder::build; an error ends build_project.
BuildObj ==
  /\ stage = "building"
  /\ i <= Len(to_compile)
  /\ \E f \in 1..Built :
       LET o == to_compile[i] IN
       /\ \E c \in DestAfter(o, files[Dest(o)], f) :
            files' = [files EXCEPT ![Dest(o)] = c]
       /\ IF f = Built THEN i' = i + 1 /\ UNCHANGED stage
          ELSE stage' = "err" /\ UNCHANGED i
  /\ UNCHANGED <<to_compile, before>>

\* The loop is over: Ok(()).
Finish ==
  /\ stage = "building"
  /\ i > Len(to_compile)
  /\ stage' = "done"
  /\ UNCHANGED <<to_compile, i, files, before>>

Next == Start \/ BuildObj \/ Finish

\* build_project is one call on one thread; it runs until it returns.
Spec == Init /\ [][Next]_vars /\ WF_vars(Next)

-----------------------------------------------------------------------------
(***************************************************************************)
(* Distinct objects: when build_project returns Ok, every listed program's *)
(* object file holds the object linked from that program's source; no     *)
(* later program wrote its object over an earlier one's.  This rests on    *)
(* check_progs keying on out/<file name> while the loop writes             *)
(* out/<file stem>.o.                                                      *)
(***************************************************************************)
BuiltObjectsDistinct ==
  stage = "done" =>
    \A j \in DOMAIN to_compile :
      files[Dest(to_compile[j])] = Source(to_compile[j])

(***************************************************************************)
(* Damage of a failed build: when build_project returns Err, the object    *)
(* files of the programs it built hold their new objects, the rest hold    *)
(* what the previous build left, except the destination of the one whose  *)
(* build failed, which Linker::new may have truncated.                     *)
(***************************************************************************)
FailureDamagesOnlyItsObject ==
  stage = "err" =>
    \A d \in Dests :
      \/ files[d] = before[d]
      \/ \E j \in 1..(i - 1) : Dest(to_compile[j]) = d /\ files[d] = Source(to_compile[j])
      \/ i <= Len(to_compile) /\ d = Dest(to_compile[i]) /\ files[d] = Junk

=============================================================================
