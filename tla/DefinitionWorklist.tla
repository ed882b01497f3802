------------------------- MODULE DefinitionWorklist -------------------------
(***************************************************************************)
(* What Btf::type_definition promises, without its worklist: starting from *)
(* the requested struct, union, enum or datasec, it prints definitions one *)
(* at a time, each type at most once, the first being the requested one   *)
(* and each later one a type that a field of an already printed definition *)
(* leads to; it returns Ok only once every type the printed definitions    *)
(* lead to is printed, and it may fail (Err, a hang or a panic) at any     *)
(* point.  TypeDefinition implements it (see MCTypeDefinition).            *)
(***************************************************************************)
EXTENDS BtfTypes, Sequences

VARIABLES g, request, printed, status

\* The definable types the fields of definition id lead to: next_type of the
\* stripped type of every member, or of the type of every non-static var.
Leads(id) ==
  LET t == g[id] IN
  CASE t.kind \in {"Struct", "Union"} ->
         {NextType(g, SkipModsAndTypedefs(g, t.mems[i].type).v).v : i \in DOMAIN t.mems}
    [] t.kind = "Datasec" ->
         {NextType(g, g[t.mems[i].type].ref).v :
            i \in {j \in DOMAIN t.mems : ~g[t.mems[j].type].flag}}
    [] OTHER -> {}

Printed == {printed[i] : i \in DOMAIN printed}
Reached == UNION {Leads(id) : id \in Printed} \ {NoType}

Init == printed = <<>> /\ status = "start"

Start ==
  /\ status = "start"
  /\ status' \in {"running", "err"}
  /\ UNCHANGED <<g, request, printed>>

Emit ==
  \E id \in DOMAIN g :
    /\ status = "running"
    /\ printed' = Append(printed, id)
    /\ id \notin Printed
    /\ IF printed = <<>> THEN id = request ELSE id \in Reached
    /\ UNCHANGED <<g, request, status>>

Return ==
  /\ status = "running"
  /\ status' = "done"
  /\ printed # <<>>
  /\ Reached \subseteq Printed
  /\ UNCHANGED <<g, request, printed>>

Fail ==
  /\ status = "running"
  /\ status' \in {"err", "hang", "crash"}
  /\ UNCHANGED <<g, request, printed>>

Next == Start \/ Emit \/ Return \/ Fail

\* The call keeps running on its thread until it returns.
Spec == Init /\ [][Next]_<<g, request, printed, status>> /\ WF_<<g, request, printed, status>>(Next)

=============================================================================
