------------------------------ MODULE BtfTypes ------------------------------
(***************************************************************************)
(* The decoded BTF type table of libbpf-cargo and the read-only queries    *)
(* the layout resolver and the declaration generator run against it       *)
(* (src/libbpf-cargo/src/btf/btf.rs, impl Btf).                            *)
(*                                                                         *)
(* A table g is a function from the type ids 0 .. Len-1 to type records;   *)
(* id 0 is Void.  One record shape serves every kind; the fields a kind    *)
(* does not use keep their default.  Names are abstract: a member name is  *)
(* "" (anonymous) or a model string; a type name is a record telling      *)
(* whether it starts with '.' (all the generator asks of a section name).  *)
(*                                                                         *)
(* Every query returns a result record [st, v]: st = "ok" with the value,  *)
(* "err" for an Err returned by bail!/ensure!/?, "hang" for a loop that    *)
(* never exits and "crash" for a panic or a stack overflow.  A loop or a   *)
(* recursion that revisits a type id it is still working on never ends:   *)
(* the loops of skip_mods_and_typedefs and next_type then hang, the        *)
(* recursions of size_of, align_of, type_declaration and type_default      *)
(* overflow the stack.                                                     *)
(***************************************************************************)
EXTENDS Integers, Sequences, FiniteSets

CONSTANT PtrSize        \* btf__pointer_size of the object (Btf.ptr_size)
CONSTANT U32            \* 2^32, or a smaller power of two for scaled tables
CONSTANT Build          \* "debug" (overflow checks panic) or "release" (wraps)

ASSUME PtrSize \in {4, 8}
ASSUME Build \in {"debug", "release"}

Kinds == {"Void", "Int", "Ptr", "Array", "Struct", "Union", "Enum", "Fwd",
          "Typedef", "Volatile", "Const", "Restrict", "Func", "FuncProto",
          "Var", "Datasec", "Float", "DeclTag", "TypeTag", "Enum64"}

\* The kinds skip_mods_and_typedefs steps through.
ModKinds == {"Volatile", "Const", "Restrict", "Typedef", "TypeTag"}

\* The kinds type_definition can print and next_type stops at.
DefinableKinds == {"Struct", "Union", "Enum", "Enum64", "Datasec"}

\* The kinds whose size field size_of returns as is.
SizedKinds == {"Struct", "Union", "Enum", "Enum64", "Datasec", "Float"}

NoType == -1            \* Option<u32>::None of next_type

Ok(v)  == [st |-> "ok", v |-> v]
Err    == [st |-> "err", v |-> 0]
Hang   == [st |-> "hang", v |-> 0]
Crash  == [st |-> "crash", v |-> 0]

Min2(a, b) == IF a <= b THEN a ELSE b
Max2(a, b) == IF a >= b THEN a ELSE b

\* A type name: whether it starts with '.', and the rest of it.
TypeName(dot, rest) == [dot |-> dot, rest |-> rest]

(***************************************************************************)
(* Type records.  ref is the type_id / pointee_type / val_type_id of the   *)
(* kinds that reference a type; mems holds the members of a struct or      *)
(* union ([name, type, bitOff, bitSize]), the vars of a datasec ([type,    *)
(* offset, size]) and the values of an enum ([name, value]); flag is the   *)
(* signedness of an Enum64 and "static linkage" of a Var.                  *)
(***************************************************************************)
Ty(k) == [kind |-> k, name |-> TypeName(FALSE, ""), ref |-> 0, size |-> 0, bits |-> 0,
          enc |-> "None", nelems |-> 0, mems |-> <<>>, flag |-> FALSE]

ValidId(g, id) == id \in DOMAIN g          \* Btf::type_by_id

(***************************************************************************)
(* Btf::skip_mods_and_typedefs: follow Volatile/Const/Restrict/Typedef/    *)
(* TypeTag until another kind; an invalid id is an error.  There is no     *)
(* bound: a cycle of modifiers loops for ever.                             *)
(***************************************************************************)
RECURSIVE SkipFrom(_, _, _)
SkipFrom(g, id, seen) ==
  IF ~ValidId(g, id) THEN Err
  ELSE IF g[id].kind \notin ModKinds THEN Ok(id)
  ELSE IF id \in seen THEN Hang
  ELSE SkipFrom(g, g[id].ref, seen \cup {id})

SkipModsAndTypedefs(g, id) == SkipFrom(g, id, {})

(***************************************************************************)
(* The next_type closure of Btf::type_definition: follow pointers, arrays, *)
(* modifiers, typedefs and decl tags to the first definable type (Some),   *)
(* or to a leaf (None).                                                    *)
(***************************************************************************)
RECURSIVE NextTypeFrom(_, _, _), NextTypeNoArray(_, _, _)

\* (The variant that treats an array as a leaf.)
NextTypeNoArray(g, id, seen) ==
  IF ~ValidId(g, id) THEN Err
  ELSE IF g[id].kind \in DefinableKinds THEN Ok(id)
  ELSE IF g[id].kind \notin ModKinds \cup {"Ptr", "DeclTag"} THEN Ok(NoType)
  ELSE IF id \in seen THEN Hang
  ELSE NextTypeNoArray(g, g[id].ref, seen \cup {id})

NextTypeFrom(g, id, seen) ==
  IF ~ValidId(g, id) THEN Err
  ELSE IF g[id].kind \in DefinableKinds THEN Ok(id)
  ELSE IF g[id].kind \notin ModKinds \cup {"Ptr", "Array", "DeclTag"}
       THEN Ok(NoType)
  ELSE IF id \in seen THEN Hang
  ELSE NextTypeFrom(g, g[id].ref, seen \cup {id})

NextType(g, id) == NextTypeFrom(g, id, {})

(***************************************************************************)
(* Btf::size_of.  stack holds the ids whose size_of call is still active.  *)
(***************************************************************************)
\* The u32 result of an addition or product x of u32 values: it panics
\* (attempt to add/multiply with overflow) in a debug build and wraps in a
\* release build.
U32Result(x) ==
  IF x < U32 THEN Ok(x)
  ELSE IF Build = "debug" THEN Crash
  ELSE Ok(x % U32)

RECURSIVE SizeOfIn(_, _, _)
SizeOfIn(g, id, stack) ==
  LET s == SkipModsAndTypedefs(g, id)
      t == g[s.v]
  IN  IF s.st # "ok" THEN s
      ELSE CASE t.kind = "Int" -> Ok((t.bits + 7) \div 8)
             [] t.kind = "Ptr" -> Ok(PtrSize)
             [] t.kind \in {"Array", "Var"} /\ s.v \in stack -> Crash
             [] t.kind \in {"Array", "Var"} ->
                  LET e == SizeOfIn(g, t.ref, stack \cup {s.v})
                  IN  IF e.st # "ok" THEN e
                      ELSE IF t.kind = "Array" THEN U32Result(t.nelems * e.v) ELSE e
             [] t.kind \in SizedKinds -> Ok(t.size)
             [] OTHER -> Err

SizeOf(g, id) == SizeOfIn(g, id, {})

(***************************************************************************)
(* Btf::align_of; a struct or union is aligned to the largest alignment    *)
(* of its members, taken in order, the first error ending the loop.        *)
(***************************************************************************)
RECURSIVE AlignOfIn(_, _, _), MembersAlign(_, _, _, _, _)

\* The alignment of a pointer: the pointer size, whatever it points to.
\* (PointeeAlign is the variant that takes the pointee's alignment instead.)
PointeeAlign(g, t, stack) == AlignOfIn(g, t.ref, stack)
PtrAlign(g, t, stack) == Ok(PtrSize)

AlignOfIn(g, id, stack) ==
  LET s == SkipModsAndTypedefs(g, id)
      t == g[s.v]
  IN  IF s.st # "ok" THEN s
      ELSE CASE t.kind = "Int" -> Ok(Min2(PtrSize, (t.bits + 7) \div 8))
             [] t.kind = "Ptr" -> PtrAlign(g, t, stack)
             [] t.kind \in {"Array", "Var", "Struct", "Union"} /\ s.v \in stack
                  -> Crash
             [] t.kind \in {"Array", "Var"} ->
                  AlignOfIn(g, t.ref, stack \cup {s.v})
             [] t.kind \in {"Struct", "Union"} ->
                  MembersAlign(g, t.mems, 1, 1, stack \cup {s.v})
             [] t.kind \in {"Enum", "Enum64", "Float"} ->
                  Ok(Min2(PtrSize, t.size))
             [] t.kind = "Datasec" -> Ok(t.size)
             [] OTHER -> Err

MembersAlign(g, ms, i, align, stack) ==
  IF i > Len(ms) THEN Ok(align)
  ELSE LET a == AlignOfIn(g, ms[i].type, stack)
       IN  IF a.st # "ok" THEN a
           ELSE MembersAlign(g, ms, i + 1, Max2(align, a.v), stack)

AlignOf(g, id) == AlignOfIn(g, id, {})

(***************************************************************************)
(* Btf::is_struct_packed: a struct is packed when its size is not a        *)
(* multiple of its alignment, or a non-bitfield member is not naturally    *)
(* aligned.  A zero alignment is an error.                                 *)
(***************************************************************************)
RECURSIVE MembersMisaligned(_, _, _)
MembersMisaligned(g, ms, i) ==
  IF i > Len(ms) THEN Ok(FALSE)
  ELSE LET a == AlignOf(g, ms[i].type)
       IN  IF a.st # "ok" THEN a
           ELSE IF a.v = 0 THEN Err
           ELSE IF ms[i].bitSize = 0 /\ ms[i].bitOff % (a.v * 8) # 0
                THEN Ok(TRUE)
           ELSE MembersMisaligned(g, ms, i + 1)

\* (The variant that only looks at the members.)
IsStructPackedByMembers(g, id) ==
  LET t == g[id]
      a == AlignOf(g, id)
  IN  IF t.kind # "Struct" THEN Ok(FALSE)
      ELSE IF a.st # "ok" THEN a
      ELSE IF a.v = 0 THEN Err
      ELSE MembersMisaligned(g, t.mems, 1)

IsStructPacked(g, id) ==
  LET t == g[id]
      a == AlignOf(g, id)
  IN  IF t.kind # "Struct" THEN Ok(FALSE)
      ELSE IF a.st # "ok" THEN a
      ELSE IF a.v = 0 THEN Err
      ELSE IF t.size % a.v # 0 THEN Ok(TRUE)
      ELSE MembersMisaligned(g, t.mems, 1)

(***************************************************************************)
(* Btf::required_padding: the padding to put before a field of type tid    *)
(* that must start at byte req when the previous field ends at byte cur.   *)
(* The alignment is capped at 4; when the capped alignment already lands   *)
(* on req no padding is emitted, otherwise the whole gap is.               *)
(***************************************************************************)
RequiredPadding(g, cur, req, tid, packed) ==
  LET a == IF packed THEN Ok(1) ELSE AlignOf(g, tid)
      al == Min2(a.v, 4)
      aligned == ((cur + al - 1) \div al) * al
  IN  IF cur > req THEN Err
      ELSE IF a.st # "ok" THEN a
      ELSE IF a.v = 0 THEN Err
      ELSE Ok(IF aligned = req THEN 0 ELSE req - cur)

(***************************************************************************)
(* Btf::type_declaration, as a term for the Rust type it prints:           *)
(*   <<"c_void">>, <<"bool">>, <<"i", w>> / <<"u", w>> / <<"f", w>> for a   *)
(*   w-byte integer or float, <<"ptr", d>> for *mut d, <<"arr", d, n>> for  *)
(*   [d; n] and <<"named", id>> for the name of struct/union/enum id.       *)
(***************************************************************************)
IntDecl(t) ==
  LET w == (t.bits + 7) \div 8
  IN  IF w \notin {1, 2, 4, 8, 16} THEN Err
      ELSE CASE t.enc = "Signed" -> Ok(<<"i", w>>)
             [] t.enc = "Bool" -> IF t.bits = 8 THEN Ok(<<"bool">>) ELSE Crash
             [] OTHER -> Ok(<<"u", w>>)

RECURSIVE TypeDeclIn(_, _, _)
TypeDeclIn(g, id, stack) ==
  LET s == SkipModsAndTypedefs(g, id)
      t == g[s.v]
      inner == TypeDeclIn(g, t.ref, stack \cup {s.v})
  IN  IF s.st # "ok" THEN s
      ELSE CASE t.kind \in {"Void", "Func"} -> Ok(<<"c_void">>)
             [] t.kind = "Int" -> IntDecl(t)
             [] t.kind = "Float" ->
                  IF t.size \in {4, 8} THEN Ok(<<"f", t.size>>) ELSE Err
             [] t.kind \in {"Ptr", "Array", "Var"} /\ s.v \in stack -> Crash
             [] t.kind \in {"Ptr", "Array", "Var"} /\ inner.st # "ok" -> inner
             [] t.kind = "Ptr" -> Ok(<<"ptr", inner.v>>)
             [] t.kind = "Array" -> Ok(<<"arr", inner.v, t.nelems>>)
             [] t.kind = "Var" -> inner
             [] t.kind \in {"Struct", "Union", "Enum", "Enum64"} ->
                  Ok(<<"named", s.v>>)
             [] OTHER -> Err

TypeDeclaration(g, id) == TypeDeclIn(g, id, {})

(***************************************************************************)
(* Btf::type_default, as a term for the expression it prints:              *)
(*   <<"default", d>> for d::default(), <<"null">> for                      *)
(*   std::ptr::null_mut() and <<"repeat", e, n>> for [e; n].               *)
(***************************************************************************)
RECURSIVE TypeDefaultIn(_, _, _)
TypeDefaultIn(g, id, stack) ==
  LET s == SkipModsAndTypedefs(g, id)
      t == g[s.v]
      own == TypeDeclaration(g, s.v)
      ref == TypeDeclaration(g, t.ref)
      elem == TypeDefaultIn(g, t.ref, stack \cup {s.v})
  IN  IF s.st # "ok" THEN s
      ELSE CASE t.kind = "Void" -> Ok(<<"default", <<"c_void">>>>)
             [] t.kind \in {"Int", "Float"} ->
                  IF own.st # "ok" THEN own ELSE Ok(<<"default", own.v>>)
             [] t.kind = "Ptr" -> Ok(<<"null">>)
             [] t.kind = "Array" /\ s.v \in stack -> Crash
             [] t.kind = "Array" ->
                  IF elem.st # "ok" THEN elem
                  ELSE Ok(<<"repeat", elem.v, t.nelems>>)
             [] t.kind \in {"Struct", "Union", "Enum", "Enum64"} ->
                  Ok(<<"default", <<"named", s.v>>>>)
             [] t.kind = "Var" ->
                  IF ref.st # "ok" THEN ref ELSE Ok(<<"default", ref.v>>)
             [] OTHER -> Err

TypeDefault(g, id) == TypeDefaultIn(g, id, {})

=============================================================================
