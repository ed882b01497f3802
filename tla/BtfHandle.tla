------------------------------ MODULE BtfHandle ------------------------------
(***************************************************************************)
(* The Btf handle of libbpf-rs (src/libbpf-rs/src/btf/mod.rs).             *)
(*                                                                         *)
(* A handle holds a pointer to a libbpf struct btf and a DropPolicy that   *)
(* says what Drop releases:                                                *)
(*   SelfPtrOnly  from_path and from_prog_id: btf__free(ptr);              *)
(*   Nothing      from_bpf_object: the btf belongs to a bpf_object the     *)
(*                caller's Object owns, and the handle borrows it;         *)
(*   ObjPtr(obj)  from_raw: the handle owns the bpf_object it opened, and  *)
(*                bpf_object__close(obj) frees the btf with it.            *)
(* The libbpf resources are a finite supply of bpf_object and btf ids;     *)
(* closes and frees count the release calls made on each of them.          *)
(*                                                                         *)
(* The query side is BtfType::alignment with skip_mods_and_typedefs and    *)
(* next_type, over the same type tables as BtfTypes; Query records one     *)
(* answer so that it can be compared with libbpf-cargo's align_of.         *)
(***************************************************************************)
EXTENDS BtfTypes

CONSTANTS Objs,      \* bpf_object ids libbpf may hand out
          Btfs,      \* struct btf ids libbpf may hand out
          Handles,   \* slots for the Btf handles a program holds at once
          Tables     \* the type tables a struct btf may hold

VARIABLES objState,  \* objState[o]: "none", "open" or "closed"
          objBtf,    \* objBtf[o]: the btf inside bpf_object o, 0 if none
          btfState,  \* btfState[b]: "none", "live" or "freed"
          btfTable,  \* btfTable[b]: the type table of btf b
          userObjs,  \* the bpf_objects held by the caller's Objects
          handles,   \* handles[h]: a live Btf handle, or NoHandle
          closes,    \* closes[o]: bpf_object__close calls on o
          frees,     \* frees[b]: releases of btf b (btf__free or by close)
          last       \* the last alignment query and its answer

vars == <<objState, objBtf, btfState, btfTable, userObjs, handles, closes, frees, last>>

NoHandle == [ptr |-> 0, policy |-> "None", obj |-> 0]
NoQuery  == [table |-> <<>>, id |-> 0, rs |-> Err]
None     == -1       \* Option::None of from_bpf_object_raw

Least(S) == CHOOSE x \in S : \A y \in S : x <= y
FreeObjs == {o \in Objs : objState[o] = "none"}
FreeBtfs == {b \in Btfs : btfState[b] = "none"}
FreeSlots == {h \in Handles : handles[h] = NoHandle}
Live(h) == handles[h] # NoHandle

\* The handle h borrows bpf_object o: its lifetime 'btf is that of o's Object.
Borrows(hd, o) == hd.obj = o /\ hd.policy # "ObjPtr"

-----------------------------------------------------------------------------
(* libbpf's release calls.                                                 *)

\* bpf_object__close: closes o and frees the btf inside it.
CloseObj(o) ==
  /\ objState' = [objState EXCEPT ![o] = "closed"]
  /\ closes' = [closes EXCEPT ![o] = @ + 1]
  /\ IF objBtf[o] # 0
     THEN /\ btfState' = [btfState EXCEPT ![objBtf[o]] = "freed"]
          /\ frees' = [frees EXCEPT ![objBtf[o]] = @ + 1]
     ELSE UNCHANGED <<btfState, frees>>

\* btf__free.
FreeBtf(b) ==
  /\ btfState' = [btfState EXCEPT ![b] = "freed"]
  /\ frees' = [frees EXCEPT ![b] = @ + 1]
  /\ UNCHANGED <<objState, closes>>

-----------------------------------------------------------------------------
(* The constructors and Drop.                                              *)

\* from_bpf_object_raw: bpf_object__btf checked by create_bpf_entity_checked_opt;
\* a null pointer is Ok(None).
FromBpfObjectRawUnchecked(p) == p
FromBpfObjectRaw(p) == IF p = 0 THEN None ELSE p

\* The DropPolicy from_bpf_object_raw gives a handle.
OwningPolicy == "SelfPtrOnly"
BorrowPolicy == "Nothing"

\* from_path and from_prog_id: libbpf parses or loads a btf the handle owns.
\* Their failures (a NUL in the path, a missing program, a libbpf error)
\* return Err and change nothing.
FromPath ==
  \E h \in FreeSlots, T \in Tables :
    /\ FreeBtfs # {}
    /\ LET b == Least(FreeBtfs) IN
       /\ btfState' = [btfState EXCEPT ![b] = "live"]
       /\ btfTable' = [btfTable EXCEPT ![b] = T]
       /\ handles' = [handles EXCEPT ![h] = [ptr |-> b, policy |-> "SelfPtrOnly", obj |-> 0]]
    /\ UNCHANGED <<objState, objBtf, userObjs, closes, frees, last>>

\* from_bpf_object on an Object of the caller; None becomes Err("btf not found").
FromBpfObject ==
  \E h \in FreeSlots, o \in userObjs :
    LET r == FromBpfObjectRaw(objBtf[o]) IN
    /\ r # None
    /\ handles' = [handles EXCEPT ![h] = [ptr |-> r, policy |-> BorrowPolicy, obj |-> o]]
    /\ UNCHANGED <<objState, objBtf, btfState, btfTable, userObjs, closes, frees, last>>

\* from_raw: bpf_object__open_mem opens a new bpf_object (hasBtf: whether it
\* has BTF); from_bpf_object_raw then gives a handle, which from_raw turns
\* into one with DropPolicy::ObjPtr(obj).  On Ok(None) it returns, and
\* nothing closes the object it opened.  A failed open changes nothing.
FromRaw ==
  \E h \in FreeSlots, T \in Tables, hasBtf \in BOOLEAN :
    /\ FreeObjs # {}
    /\ hasBtf => FreeBtfs # {}
    /\ LET o == Least(FreeObjs)
           b == IF hasBtf THEN Least(FreeBtfs) ELSE 0
           r == FromBpfObjectRaw(b)
       IN  /\ objState' = [objState EXCEPT ![o] = "open"]
           /\ objBtf' = [objBtf EXCEPT ![o] = b]
           /\ IF hasBtf
              THEN /\ btfState' = [btfState EXCEPT ![b] = "live"]
                   /\ btfTable' = [btfTable EXCEPT ![b] = T]
              ELSE UNCHANGED <<btfState, btfTable>>
           /\ handles' = IF r = None THEN handles
                         ELSE [handles EXCEPT ![h] = [ptr |-> r, policy |-> "ObjPtr", obj |-> o]]
    /\ UNCHANGED <<userObjs, closes, frees, last>>

\* Drop with DropPolicy::ObjPtr also calling btf__free on the pointer.
DropObjPtrAndBtf(hd) ==
  /\ objState' = [objState EXCEPT ![hd.obj] = "closed"]
  /\ closes' = [closes EXCEPT ![hd.obj] = @ + 1]
  /\ btfState' = [btfState EXCEPT ![hd.ptr] = "freed"]
  /\ frees' = [frees EXCEPT ![hd.ptr] = @ + 2]

\* Drop with DropPolicy::ObjPtr(obj): bpf_object__close(obj).
DropObjPtr(hd) == CloseObj(hd.obj)

\* impl Drop for Btf.
Drop ==
  \E h \in Handles :
    /\ Live(h)
    /\ LET hd == handles[h] IN
       CASE hd.policy = "Nothing"     -> UNCHANGED <<objState, closes, btfState, frees>>
         [] hd.policy = "SelfPtrOnly" -> FreeBtf(hd.ptr)
         [] OTHER                     -> DropObjPtr(hd)
    /\ handles' = [handles EXCEPT ![h] = NoHandle]
    /\ UNCHANGED <<objBtf, btfTable, userObjs, last>>

-----------------------------------------------------------------------------
(* The caller's Objects (libbpf_rs::Object, outside this file): opening    *)
(* one gives a bpf_object with or without BTF; dropping it closes the      *)
(* bpf_object.  The borrow checker lets an Object go only when no handle   *)
(* from from_bpf_object borrows it.                                         *)

OpenObject ==
  \E T \in Tables, hasBtf \in BOOLEAN :
    /\ FreeObjs # {}
    /\ hasBtf => FreeBtfs # {}
    /\ LET o == Least(FreeObjs)
           b == IF hasBtf THEN Least(FreeBtfs) ELSE 0
       IN  /\ objState' = [objState EXCEPT ![o] = "open"]
           /\ objBtf' = [objBtf EXCEPT ![o] = b]
           /\ userObjs' = userObjs \cup {o}
           /\ IF hasBtf
              THEN /\ btfState' = [btfState EXCEPT ![b] = "live"]
                   /\ btfTable' = [btfTable EXCEPT ![b] = T]
              ELSE UNCHANGED <<btfState, btfTable>>
    /\ UNCHANGED <<handles, closes, frees, last>>

CloseObject ==
  \E o \in userObjs :
    /\ \A h \in Handles : ~Borrows(handles[h], o)
    /\ CloseObj(o)
    /\ userObjs' = userObjs \ {o}
    /\ UNCHANGED <<objBtf, btfTable, handles, last>>

-----------------------------------------------------------------------------
(* BtfType::alignment.                                                     *)

\* type_by_id: btf__type_by_id returns NULL past btf__type_cnt.
RsTypeById(g, id) == id \in DOMAIN g

\* skip_mods_and_typedefs: ty = ty.next_type().unwrap() while ty is a
\* modifier or a typedef; next_type of a missing id is None, and the unwrap
\* panics.  A loop that comes back to an id never returns.
\* is_mod: the qualifiers and type tags (a typedef is not a modifier).
RsIsMod(t) == t.kind \in {"Volatile", "Const", "Restrict", "TypeTag"}

RECURSIVE RsSkip(_, _, _)
RsSkip(g, id, seen) ==
  IF id \in seen THEN Hang
  ELSE IF ~RsIsMod(g[id]) /\ g[id].kind # "Typedef" THEN Ok(id)
  ELSE IF RsTypeById(g, g[id].ref) THEN RsSkip(g, g[id].ref, seen \cup {id})
  ELSE Crash

\* The Int arm without the cap at the pointer size.
RsIntAlignUncapped(t) == Ok((t.bits + 7) \div 8)

\* The Int arm: min(ptr_size()?, (bits + 7) / 8); PtrSize is never 0 here.
RsIntAlign(t) == Ok(Min2(PtrSize, (t.bits + 7) \div 8))

\* alignment, entered from a BtfType; stack holds the calls in progress, a
\* by-value cycle overflows it.  Array and Var follow a type_by_id(..).unwrap().
RECURSIVE RsAlignIn(_, _, _), RsMembersAlign(_, _, _, _, _)
RsAlignIn(g, id, stack) ==
  LET s == RsSkip(g, id, {})
      t == g[s.v]
  IN  IF s.st # "ok" THEN s
      ELSE CASE t.kind = "Int" -> RsIntAlign(t)
             [] t.kind = "Ptr" -> Ok(PtrSize)
             [] t.kind \in {"Array", "Var", "Struct", "Union"} /\ s.v \in stack -> Crash
             [] t.kind \in {"Array", "Var"} ->
                  IF RsTypeById(g, t.ref) THEN RsAlignIn(g, t.ref, stack \cup {s.v})
                  ELSE Crash
             [] t.kind \in {"Struct", "Union"} ->
                  RsMembersAlign(g, t.mems, 1, 1, stack \cup {s.v})
             [] t.kind \in {"Enum", "Enum64", "Float"} -> Ok(Min2(PtrSize, t.size))
             [] t.kind = "Datasec" -> Ok(t.size)
             [] OTHER -> Err

RsMembersAlign(g, ms, i, align, stack) ==
  IF i > Len(ms) THEN Ok(align)
  ELSE IF ~RsTypeById(g, ms[i].type) THEN Crash
  ELSE LET a == RsAlignIn(g, ms[i].type, stack)
       IN  IF a.st # "ok" THEN a
           ELSE RsMembersAlign(g, ms, i + 1, Max2(align, a.v), stack)

RsAlignment(g, id) == RsAlignIn(g, id, {})

\* A caller asks a live handle for the alignment of one of its types
\* (type_by_id over 1..len, as type_by_kind enumerates them).
Query ==
  \E h \in Handles :
    /\ Live(h)
    /\ \E id \in DOMAIN btfTable[handles[h].ptr] \ {0} :
         last' = [table |-> btfTable[handles[h].ptr], id |-> id,
                  rs |-> RsAlignment(btfTable[handles[h].ptr], id)]
    /\ UNCHANGED <<objState, objBtf, btfState, btfTable, userObjs, handles, closes, frees>>

-----------------------------------------------------------------------------
Init ==
  /\ objState = [o \in Objs |-> "none"]
  /\ objBtf = [o \in Objs |-> 0]
  /\ btfState = [b \in Btfs |-> "none"]
  /\ btfTable = [b \in Btfs |-> <<>>]
  /\ userObjs = {}
  /\ handles = [h \in Handles |-> NoHandle]
  /\ closes = [o \in Objs |-> 0]
  /\ frees = [b \in Btfs |-> 0]
  /\ last = NoQuery

Next ==
  \/ FromPath \/ FromBpfObject \/ FromRaw \/ Drop
  \/ OpenObject \/ CloseObject \/ Query

Spec == Init /\ [][Next]_vars

-----------------------------------------------------------------------------
(* Properties.                                                              *)

\* Every live handle points at a btf libbpf handed out, and names the
\* bpf_object its policy needs.
TypeOK ==
  /\ \A o \in Objs : objState[o] \in {"none", "open", "closed"}
  /\ \A b \in Btfs : btfState[b] \in {"none", "live", "freed"}
  /\ userObjs \subseteq Objs
  /\ \A h \in Handles : Live(h) =>
       /\ handles[h].ptr \in Btfs
       /\ handles[h].policy \in {"Nothing", "SelfPtrOnly", "ObjPtr"}
       /\ handles[h].policy # "SelfPtrOnly" => handles[h].obj \in Objs

(* Drop releases only what the handle owns: across any order of creating  *)
(* handles from paths, raw bytes and Objects, and of dropping handles and  *)
(* Objects, every live handle's btf is still allocated.                    *)
NoUseAfterFree == \A h \in Handles : Live(h) => btfState[handles[h].ptr] = "live"

(* No bpf_object is closed twice and no btf freed twice, whether it goes   *)
(* through btf__free or through bpf_object__close.                          *)
FreedOnce ==
  /\ \A o \in Objs : closes[o] <= 1
  /\ \A b \in Btfs : frees[b] <= 1

(* libbpf-rs's BtfType::alignment and libbpf-cargo's Btf::align_of agree: *)
(* an alignment libbpf-rs returns is the one align_of returns, and where   *)
(* align_of fails libbpf-rs returns no alignment.                           *)
AlignmentAgrees ==
  last # NoQuery =>
    LET c == AlignOf(last.table, last.id) IN
    /\ last.rs.st = "ok" => c = last.rs
    /\ c.st = "err" => last.rs.st # "ok"

(* Every libbpf object a handle constructor opened is released once the   *)
(* caller holds no Object and no handle.                                    *)
NoLeak ==
  (userObjs = {} /\ \A h \in Handles : ~Live(h)) =>
    /\ \A o \in Objs : objState[o] # "open"
    /\ \A b \in Btfs : btfState[b] # "live"

=============================================================================
