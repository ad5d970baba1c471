--------------------------- MODULE OwnershipChecker ---------------------------
(***************************************************************************)
(* The body checks of the Python bootstrap compiler (openc/flow.py,        *)
(* openc/semantic.py and the part of openc/ownership.py it calls): what is *)
(* known of each local binding before a statement, the operations that     *)
(* read, resolve, join and release it; then expressions, calls, proofs by  *)
(* status and by presence, statements, loops, returns and scope exits, as  *)
(* operators from a flow state to the flow state after the construct.      *)
(*                                                                         *)
(* A flow state is a record whose field fault is NoFault, or the rule of   *)
(* the diagnostic that ended the analysis: raise_error leaves the function *)
(* at once, and so does every operator below once fault is set.            *)
(*                                                                         *)
(* Types are told apart by their kind only; names are local bindings or    *)
(* functions. Arithmetic, indexing, casts and raw pointers do not touch a  *)
(* flow state and are left out; ConstantEvaluation has their types.        *)
(***************************************************************************)
EXTENDS Naturals, FiniteSets, Sequences, SequencesExt

CONSTANT
  \* Signatures[f]: the candidates for a call of f, each a record of params, a
  \* sequence of [mode, type, const], and result.
  Signatures

NoFault == "none"
NoLineage == 0
NoCleanup == "none"

InitStates == {"uninitialized", "conditional", "initialized",
               "maybe_initialized", "ambiguous", "moved", "destroyed"}
PresenceStates == {"unknown", "absent", "present", "maybe"}
OwnerStates == {"none", "uninitialized", "conditional", "live",
                "cleanup_reserved", "dismantling", "moved", "maybe_live",
                "ambiguous", "destroyed"}

\* The kinds of type the analysis of bindings tells apart.
TypeKinds == {"resource", "status", "optional", "bool", "integer", "ref", "void"}

FlowBinding ==
  [type : TypeKinds, init : InitStates, presence : PresenceStates,
   owner : OwnerStates, lineage : Nat, mutable : BOOLEAN, cleanup : STRING]

\* The obligation a status carries for the outputs of the call it came from.
StatusLineage ==
  [names : SUBSET STRING, outputs : SUBSET STRING, owning : SUBSET STRING,
   resolved : {"unknown", "success", "failure"}]

Over(f, k, v) == [n \in DOMAIN f \union {k} |-> IF n = k THEN v ELSE f[n]]
Without(f, names) == [n \in DOMAIN f \ names |-> f[n]]

EmptyFlow ==
  [bindings |-> <<>>, lineages |-> <<>>, next |-> 1, reachable |-> TRUE,
   unsafe |-> 0, loops |-> 0, fault |-> NoFault]

Running(flow) == flow.fault = NoFault

Fail(flow, rule) == IF Running(flow) THEN [flow EXCEPT !.fault = rule] ELSE flow

\* Continue with next unless the analysis has ended.
Require(flow, condition, rule, next) ==
  IF ~Running(flow) THEN flow
  ELSE IF condition THEN next ELSE Fail(flow, rule)

Update(flow, name, binding) ==
  [flow EXCEPT !.bindings = Over(flow.bindings, name, binding)]

Declare(flow, name, binding) ==
  Require(flow, name \notin DOMAIN flow.bindings, "NAME-DUPLICATE",
          Update(flow, name, binding))

-----------------------------------------------------------------------------
(* Status lineages. *)

NewLineage(flow, status, outputs, owning) ==
  [flow EXCEPT
     !.next = flow.next + 1,
     !.lineages = Over(flow.lineages, flow.next,
                       [names |-> {status}, outputs |-> outputs,
                        owning |-> owning, resolved |-> "unknown"])]

\* The unresolved outputs that only the status called name can prove.
ProofsCarriedOnlyBy(flow, name) ==
  {o \in UNION {flow.lineages[l].outputs :
                  l \in {k \in DOMAIN flow.lineages :
                           /\ flow.lineages[k].names = {name}
                           /\ flow.lineages[k].resolved = "unknown"}} :
     o \in DOMAIN flow.bindings /\ flow.bindings[o].init = "conditional"}

LoseStatusName(flow, name) ==
  Require(flow, ProofsCarriedOnlyBy(flow, name) = {}, "OUT-PROOF-LOSS",
          [flow EXCEPT !.lineages =
             [l \in DOMAIN @ |-> [@[l] EXCEPT !.names = @ \ {name}]]])

Resolved(binding, owning, outcome) ==
  IF outcome = "success"
  THEN [binding EXCEPT !.init = "initialized",
                       !.owner = IF owning THEN "live" ELSE @,
                       !.presence = IF binding.type = "optional" THEN "maybe" ELSE @,
                       !.lineage = NoLineage]
  ELSE [binding EXCEPT !.init = "uninitialized",
                       !.owner = IF owning THEN "uninitialized" ELSE @,
                       !.lineage = NoLineage]

ResolveLineage(flow, id, outcome) ==
  LET l == flow.lineages[id]
      settles(n) == n \in l.outputs /\ flow.bindings[n].lineage = id
  IN IF ~Running(flow) THEN flow
     ELSE [flow EXCEPT
             !.lineages[id].resolved = outcome,
             !.bindings = [n \in DOMAIN @ |->
                IF settles(n) THEN Resolved(@[n], n \in l.owning, outcome) ELSE @[n]]]

-----------------------------------------------------------------------------
(* Reads. *)

ReadFault(init) ==
  CASE init = "conditional" -> "OUT-PROOF"
    [] init = "moved" -> "OWN-USE-AFTER-MOVE"
    [] init = "destroyed" -> "LIFETIME-USE-AFTER-END"
    [] OTHER -> "SAFE-INIT"

RequireReadable(flow, name) ==
  IF ~Running(flow) THEN flow
  ELSE IF name \notin DOMAIN flow.bindings THEN Fail(flow, "NAME-UNKNOWN")
  ELSE IF flow.bindings[name].init # "initialized"
       THEN Fail(flow, ReadFault(flow.bindings[name].init)) ELSE flow

-----------------------------------------------------------------------------
(* The join of the states that two paths leave. *)

MergeInit(left, right, leftLineage, rightLineage) ==
  CASE left = right /\ (left # "conditional" \/ leftLineage = rightLineage) -> left
    [] left # right /\ {left, right} \intersect
                         {"ambiguous", "moved", "destroyed", "conditional"} = {}
         -> "maybe_initialized"
    [] OTHER -> "ambiguous"

MergePresence(left, right) ==
  IF left = right THEN left
  ELSE IF "unknown" \in {left, right} THEN "unknown" ELSE "maybe"

\* A mistake: what the first path did to the owner is taken for both.
MergeOwnerFirst(left, right) == left

MergeOwner(left, right) ==
  IF left = right THEN left
  ELSE IF {left, right} \subseteq {"uninitialized", "moved", "destroyed", "none"}
       THEN "uninitialized"
  ELSE IF {left, right} \intersect {"live", "cleanup_reserved"} # {}
       THEN "maybe_live" ELSE "ambiguous"

MergeBinding(left, right) ==
  LET init == MergeInit(left.init, right.init, left.lineage, right.lineage)
  IN [left EXCEPT
        !.init = init,
        !.lineage = IF left.lineage = right.lineage /\ init = "conditional"
                    THEN left.lineage ELSE NoLineage,
        !.presence = MergePresence(left.presence, right.presence),
        !.owner = MergeOwner(left.owner, right.owner),
        !.cleanup = IF left.cleanup = right.cleanup THEN left.cleanup ELSE NoCleanup]

Least(a, b) == IF a < b THEN a ELSE b
Most(a, b) == IF a > b THEN a ELSE b

\* A fault of either path has already ended the analysis.
Merge(left, right) ==
  IF ~Running(left) THEN left
  ELSE IF ~Running(right) \/ ~left.reachable THEN right
  ELSE IF ~right.reachable THEN left
  ELSE [left EXCEPT
          !.next = Most(left.next, right.next),
          !.bindings = [n \in DOMAIN left.bindings \intersect DOMAIN right.bindings |->
                          MergeBinding(left.bindings[n], right.bindings[n])],
          !.lineages = [l \in {k \in DOMAIN left.lineages \intersect DOMAIN right.lineages :
                                 left.lineages[k].resolved = right.lineages[k].resolved} |->
                          [left.lineages[l] EXCEPT
                             !.names = @ \intersect right.lineages[l].names]],
          !.unsafe = Least(left.unsafe, right.unsafe),
          !.loops = Least(left.loops, right.loops)]

\* What the loop of check_while compares to know that it has converged.
FlowEquivalent(left, right) ==
  LET compared(b) == <<b.init, b.presence, b.owner, b.lineage, b.cleanup>>
  IN /\ left.reachable = right.reachable
     /\ DOMAIN left.bindings = DOMAIN right.bindings
     /\ \A n \in DOMAIN left.bindings :
          compared(left.bindings[n]) = compared(right.bindings[n])

-----------------------------------------------------------------------------
(* The end of a scope. *)

OwnerAtExit(binding) ==
  binding.owner \in {"live", "dismantling", "maybe_live", "ambiguous"}

\* The fault raised for the bindings in names, NoFault when there is none. With
\* several, which comes first follows the order of declaration; the verdict is
\* the same.
ScopeExitFault(flow, names) ==
  LET held == {flow.bindings[n] : n \in names \intersect DOMAIN flow.bindings}
  IN IF \E b \in held : OwnerAtExit(b) THEN "OWN-EXIT"
     ELSE IF \E b \in held : b.init = "conditional" THEN "OUT-PROOF-LOSS"
     ELSE NoFault

VerifyScopeExit(flow, names) ==
  Require(flow, ScopeExitFault(flow, names) = NoFault,
          ScopeExitFault(flow, names), flow)

-----------------------------------------------------------------------------
(* Expressions, as openc/semantic.py looks at them. *)

Absent == [op |-> "absent"]
IsName(e) == e.op = "name"
IsMember(e, fields) == e.op = "member" /\ e.field \in fields

\* The stable owner an expression names. A member names no binding of its own.
OwnerName(e) ==
  CASE e.op = "name" -> e.name
    [] e.op = "member" -> "<member>"
    [] OTHER -> "<none>"

HasOwnerName(e) == e.op \in {"name", "member"}
BindingOf(flow, e) == flow.bindings[OwnerName(e)]
Bound(flow, e) == OwnerName(e) \in DOMAIN flow.bindings

RECURSIVE IsLvalue(_)
IsLvalue(e) ==
  \/ e.op = "name"
  \/ e.op = "member" /\ e.field = "value" /\ IsLvalue(e.left)

IsOut(mode) == mode \in {"out", "out_own"}

\* The outputs of a call, in the order of its arguments.
OutNames(e) == {OwnerName(e.args[i].value) : i \in {j \in DOMAIN e.args : e.args[j].mode = "out"}}

CanConvert(source, target) == source = target

-----------------------------------------------------------------------------
(* Ownership steps of openc/ownership.py. *)

Move(flow, name) ==
  LET read == RequireReadable(flow, name)
      owner == read.bindings[name].owner
  IN IF ~Running(read) THEN read
     ELSE IF owner = "cleanup_reserved" THEN Fail(read, "SCOPE-RESERVED-MOVE")
     ELSE IF owner # "live" THEN Fail(read, "OWN-MOVE-STATE")
     ELSE Update(read, name, [read.bindings[name] EXCEPT !.owner = "moved", !.init = "moved"])

ReserveCleanup(flow, name, action) ==
  LET read == RequireReadable(flow, name)
  IN IF ~Running(read) THEN read
     ELSE IF read.bindings[name].owner # "live" THEN Fail(read, "SCOPE-OWNER-STATE")
     ELSE IF read.bindings[name].cleanup # NoCleanup THEN Fail(read, "SCOPE-DUPLICATE-OWNER")
     ELSE Update(read, name, [read.bindings[name] EXCEPT !.owner = "cleanup_reserved",
                                                         !.cleanup = action])

ConsumeReservedCleanup(flow, name) ==
  Update(flow, name, [flow.bindings[name] EXCEPT !.owner = "moved", !.init = "moved",
                                                 !.cleanup = NoCleanup])

\* begin_borrow and end_borrow around one argument: the borrow is over before the
\* next argument is looked at, so that only the state of the owner is checked.
Borrow(flow, name) ==
  LET read == RequireReadable(flow, name)
  IN Require(read, read.bindings[name].owner \notin {"moved", "destroyed", "uninitialized"},
             "BORROW-OWNER-STATE", read)

-----------------------------------------------------------------------------
(* Proofs by condition. *)

StatusProof(flow, e) ==
  LET proves(m, l) ==
        /\ IsMember(m, {"ok", "code"}) /\ Bound(flow, m.left) /\ l.op = "literal"
        /\ BindingOf(flow, m.left).lineage # NoLineage
        /\ l.kind = (IF m.field = "ok" THEN "bool" ELSE "integer")
      found(m, l) ==
        [lineage |-> BindingOf(flow, m.left).lineage,
         onTrue |-> (IF m.field = "ok" THEN l.value ELSE l.value = 0) = (e.op = "eq")]
  IN IF e.op \notin {"eq", "ne"} THEN {}
     ELSE IF proves(e.left, e.right) THEN {found(e.left, e.right)}
     ELSE IF proves(e.right, e.left) THEN {found(e.right, e.left)} ELSE {}

Outcome(success) == IF success THEN "success" ELSE "failure"
PresenceIf(present) == IF present THEN "present" ELSE "absent"

SetPresence(flow, name, presence) ==
  IF Running(flow) /\ name \in DOMAIN flow.bindings
  THEN [flow EXCEPT !.bindings[name].presence = presence] ELSE flow

RECURSIVE Refine(_, _, _, _)
\* refine_condition: what flow learns when e has the value truth; the lineages
\* of status proofs are those of seen, the state the condition was checked in.
Refine(seen, flow, e, truth) ==
  CASE e.op = "not" -> Refine(seen, flow, e.left, ~truth)
    [] e.op = "and" -> IF truth THEN Refine(seen, Refine(seen, flow, e.left, TRUE), e.right, TRUE)
                       ELSE flow
    [] e.op = "or" -> IF truth THEN flow
                      ELSE Refine(seen, Refine(seen, flow, e.left, FALSE), e.right, FALSE)
    [] e.op \in {"eq", "ne"} ->
         LET proof == StatusProof(seen, e)
             sides == <<<<e.left, e.right>>, <<e.right, e.left>>>>
             hit == {i \in 1 .. 2 : /\ IsMember(sides[i][1], {"present"})
                                    /\ sides[i][2].op = "literal" /\ sides[i][2].kind = "bool"}
         IN IF proof # {}
            THEN LET p == CHOOSE p \in proof : TRUE
                 IN ResolveLineage(flow, p.lineage, Outcome(truth = p.onTrue))
            ELSE IF hit = {} THEN flow
            ELSE LET side == sides[CHOOSE i \in hit : TRUE]
                     presentOnTrue == side[2].value = (e.op = "eq")
                 IN SetPresence(flow, OwnerName(side[1].left), PresenceIf(truth = presentOnTrue))
    [] IsMember(e, {"ok"}) ->
         IF Bound(flow, e.left) /\ BindingOf(flow, e.left).lineage # NoLineage
         THEN ResolveLineage(flow, BindingOf(flow, e.left).lineage, Outcome(truth)) ELSE flow
    [] IsMember(e, {"present"}) -> SetPresence(flow, OwnerName(e.left), PresenceIf(truth))
    [] OTHER -> flow

\* A case of a switch over the code of a status proves success when it is zero.
RefineSwitchCase(subject, value, flow) ==
  IF /\ Running(flow) /\ IsMember(subject, {"code"}) /\ Bound(flow, subject.left)
     /\ BindingOf(flow, subject.left).lineage # NoLineage
  THEN ResolveLineage(flow, BindingOf(flow, subject.left).lineage, Outcome(value = 0))
  ELSE flow

-----------------------------------------------------------------------------
(* Expressions. *)

MemberType(base, field) ==
  CASE base = "status" /\ field = "ok" -> "bool"
    [] base = "status" /\ field = "code" -> "integer"
    [] base = "optional" /\ field = "present" -> "bool"
    [] base = "optional" /\ field = "value" -> "integer"
    [] OTHER -> "unknown"

RECURSIVE TypeOf(_, _)
TypeOf(flow, e) ==
  CASE e.op = "literal" -> IF e.kind = "none" THEN "optional" ELSE e.kind
    [] e.op = "name" -> flow.bindings[e.name].type
    [] e.op = "member" -> MemberType(TypeOf(flow, e.left), e.field)
    [] e.op \in {"not", "and", "or", "eq", "ne"} -> "bool"
    [] e.op = "assign" -> TypeOf(flow, e.left)
    [] e.op = "call" -> Signatures[e.fn][1].result
    [] e.op = "aggregate" -> "resource"
    [] e.op = "status" -> "status"
    [] e.op = "destroy" -> "void"

RECURSIVE CheckExpr(_, _)

RequireBool(before, after, e) == Require(after, TypeOf(before, e) = "bool", "COND-BOOL", after)

CheckBool(flow, e) == RequireBool(flow, CheckExpr(flow, e), e)

RequireConversion(flow, e, type) ==
  Require(flow, CanConvert(TypeOf(flow, e), type), "CONV-LOSSY", flow)

\* resource and status values have no equality between themselves.
CheckEquality(flow, e) ==
  LET checked == CheckExpr(CheckExpr(flow, e.left), e.right)
  IN Require(checked, /\ TypeOf(flow, e.left) = TypeOf(flow, e.right)
                      /\ TypeOf(flow, e.left) # "resource", "TYPE-MISMATCH", checked)

CheckMember(flow, e) ==
  LET read == CheckExpr(flow, e.left)
      type == MemberType(TypeOf(flow, e.left), e.field)
      base == OwnerName(e.left)
  IN IF ~Running(read) THEN read
     ELSE IF type = "unknown" THEN Fail(read, "STRUCT-FIELD-UNKNOWN")
     ELSE Require(read, e.field = "value" /\ base \in DOMAIN read.bindings
                          => read.bindings[base].presence = "present",
                  "OPTIONAL-VALUE", read)

-----------------------------------------------------------------------------
(* Calls: every candidate is tried on the arguments, then the effects of the  *)
(* one that is selected are applied.                                          *)

AcceptsOutput(flow, arg, param) ==
  /\ arg.mode = "out" /\ IsName(arg.value)
  /\ Bound(flow, arg.value)
  /\ BindingOf(flow, arg.value).init \in {"uninitialized", "moved", "destroyed"}
  /\ BindingOf(flow, arg.value).type = param.type

\* An own parameter takes any stable owner that is a resource.
AcceptsInput(flow, arg, param) ==
  CASE param.mode = "own" -> HasOwnerName(arg.value) /\ TypeOf(flow, arg.value) = "resource"
    [] param.mode = "ref" -> IsLvalue(arg.value) /\ TypeOf(flow, arg.value) = param.type
    [] OTHER -> CanConvert(TypeOf(flow, arg.value), param.type)

TryArgument(try, arg, param) ==
  IF ~try.valid \/ ~Running(try.flow) THEN try
  ELSE IF IsOut(param.mode)
       THEN [try EXCEPT !.valid = AcceptsOutput(try.flow, arg, param)]
  ELSE IF arg.mode = "out" THEN [try EXCEPT !.valid = FALSE]
  ELSE LET after == CheckExpr(try.flow, arg.value)
       IN [flow |-> after,
           valid |-> Running(after) /\ AcceptsInput(after, arg, param)]

Try(flow, e, signature) ==
  LET start == [flow |-> flow, valid |-> Len(signature.params) = Len(e.args)]
  IN FoldLeft(LAMBDA try, i : TryArgument(try, e.args[i], signature.params[i]),
              start, IF start.valid THEN [i \in DOMAIN e.args |-> i] ELSE <<>>)

ApplyArgument(flow, arg, param, inScope) ==
  IF ~Running(flow) \/ ~HasOwnerName(arg.value) THEN flow
  ELSE CASE param.mode = "own" -> IF inScope THEN flow ELSE Move(flow, OwnerName(arg.value))
         [] param.mode = "ref" -> Borrow(flow, OwnerName(arg.value))
         [] OTHER -> flow

\* The state of resolution after the first k candidates: those that match so far.
Candidates(flow, e) ==
  FoldLeft(LAMBDA acc, k :
             LET try == Try(acc.flow, e, Signatures[e.fn][k])
             IN IF ~Running(acc.flow) THEN acc
                ELSE [flow |-> try.flow,
                      matches |-> IF try.valid THEN acc.matches \union {k} ELSE acc.matches],
           [flow |-> flow, matches |-> {}],
           [k \in DOMAIN Signatures[e.fn] |-> k])

ResolveCall(flow, e, inScope) ==
  LET tried == Candidates(flow, e)
      chosen == Signatures[e.fn][CHOOSE k \in tried.matches : TRUE]
  IN IF ~Running(tried.flow) THEN tried.flow
     ELSE IF tried.matches = {} THEN Fail(tried.flow, "CALL-NO-MATCH")
     ELSE IF Cardinality(tried.matches) > 1 THEN Fail(tried.flow, "CALL-AMBIGUOUS")
     ELSE FoldLeft(LAMBDA f, i : ApplyArgument(f, e.args[i], chosen.params[i], inScope),
                   tried.flow, [i \in DOMAIN e.args |-> i])

CheckAssign(flow, e) ==
  LET name == OwnerName(e.left)
      read == CheckExpr(flow, e.left)
      type == TypeOf(flow, e.left)
      isStatus == type = "status" /\ name \in DOMAIN read.bindings
                                  /\ read.bindings[name].lineage # NoLineage
      allowed == Require(read, IsLvalue(e.left)
                               /\ (name \in DOMAIN read.bindings => read.bindings[name].mutable),
                         "CONST-ASSIGN", read)
      detached == IF Running(allowed) /\ isStatus THEN LoseStatusName(allowed, name) ELSE allowed
      valued == RequireConversion(CheckExpr(detached, e.right), e.right, type)
      moved == IF Running(valued) /\ type = "resource" /\ HasOwnerName(e.right)
               THEN Move(valued, OwnerName(e.right)) ELSE valued
  IN IF ~Running(moved) \/ name \notin DOMAIN moved.bindings THEN moved
     ELSE Update(moved, name,
            [moved.bindings[name] EXCEPT
               !.owner = IF type = "resource" THEN "live" ELSE @,
               !.init = "initialized",
               !.lineage = NoLineage,
               !.presence = IF type = "optional"
                            THEN PresenceIf(e.right.op # "literal") ELSE @])

\* Fields are checked in order; the owners of the transferring fields move last.
CheckAggregate(flow, e) ==
  LET checked == FoldLeft(LAMBDA f, field : CheckExpr(f, field.value), flow, e.fields)
      transfers == SelectSeq(e.fields, LAMBDA field : field.own)
      isOwned(field) == HasOwnerName(field.value)
      repeated == \E i, j \in DOMAIN transfers :
                    i # j /\ OwnerName(transfers[i].value) = OwnerName(transfers[j].value)
      named == Require(checked, \A i \in DOMAIN transfers : isOwned(transfers[i]),
                       "RESOURCE-INIT-OWNER", checked)
      explicit == Require(named, \A i \in DOMAIN e.fields :
                            TypeOf(flow, e.fields[i].value) = "resource" => e.fields[i].own,
                          "RESOURCE-INIT-OWNER", named)
      distinct == Require(explicit, ~repeated, "RESOURCE-INIT-DUPLICATE-OWNER", explicit)
  IN FoldLeft(LAMBDA f, field : IF Running(f) THEN Move(f, OwnerName(field.value)) ELSE f,
              distinct, transfers)

CheckDestroy(flow, e) ==
  LET read == CheckExpr(flow, e.left)
  IN IF ~Running(read) \/ TypeOf(flow, e.left) = "ref" THEN read
     ELSE IF ~HasOwnerName(e.left) THEN Fail(read, "OWN-STABLE-SINK")
     ELSE Move(read, OwnerName(e.left))

CheckExpr(flow, e) ==
  IF ~Running(flow) THEN flow
  ELSE CASE e.op = "literal" -> flow
         [] e.op = "name" -> RequireReadable(flow, e.name)
         [] e.op = "not" -> CheckBool(flow, e.left)
         [] e.op \in {"and", "or"} -> CheckBool(CheckBool(flow, e.left), e.right)
         [] e.op \in {"eq", "ne"} -> CheckEquality(flow, e)
         [] e.op = "member" -> CheckMember(flow, e)
         [] e.op = "assign" -> CheckAssign(flow, e)
         [] e.op = "call" -> ResolveCall(flow, e, FALSE)
         [] e.op = "aggregate" -> CheckAggregate(flow, e)
         [] e.op = "status" -> flow
         [] e.op = "destroy" -> CheckDestroy(flow, e)

-----------------------------------------------------------------------------
(* Declarations and cleanups. *)

Fresh(type, init, owner, mutable) ==
  [type |-> type, init |-> init, presence |-> "unknown", owner |-> owner,
   lineage |-> NoLineage, mutable |-> mutable, cleanup |-> NoCleanup]

Conditional(binding, lineage, owning) ==
  [binding EXCEPT !.init = "conditional", !.lineage = lineage,
                  !.owner = IF owning THEN "conditional" ELSE @]

\* A status initialised by a call becomes the proof of the outputs of the call:
\* prepare_out_call resolves it once, check_expression once more.
CheckStatusLocal(flow, s) ==
  LET checked == CheckExpr(ResolveCall(flow, s.init, FALSE), s.init)
      converted == RequireConversion(checked, s.init, "status")
      outputs == OutNames(s.init)
      owning == {n \in outputs : converted.bindings[n].type = "resource"}
      lined == NewLineage(converted, s.name, outputs, owning)
  IN IF ~Running(converted) THEN converted
     ELSE [lined EXCEPT !.bindings =
             [n \in DOMAIN @ |->
                IF n = s.name THEN [@[n] EXCEPT !.init = "initialized", !.lineage = converted.next]
                ELSE IF n \in outputs THEN Conditional(@[n], converted.next, n \in owning)
                ELSE @[n]]]

CheckLocal(flow, s) ==
  LET declared == Declare(flow, s.name,
                    Fresh(s.type, "uninitialized",
                          IF s.type = "resource" THEN "uninitialized" ELSE "none", TRUE))
      valued == RequireConversion(CheckExpr(declared, s.init), s.init, s.type)
  IN IF ~Running(declared) \/ s.init = Absent THEN declared
     ELSE IF s.type = "status" /\ s.init.op = "call" THEN CheckStatusLocal(declared, s)
     ELSE IF ~Running(valued) THEN valued
     ELSE Update(valued, s.name,
            [valued.bindings[s.name] EXCEPT
               !.owner = IF s.type = "resource" THEN "live" ELSE @,
               !.init = "initialized",
               !.presence = IF s.type = "optional" THEN PresenceIf(s.init.op # "literal") ELSE @])

\* The owner a scope statement reserves: the subject of a destroy, or the only own
\* argument of a call.
ScopeOwners(action) ==
  IF action.op = "destroy" THEN <<action.left>>
  ELSE LET params == Signatures[action.fn][1].params
           own == SelectSeq([i \in DOMAIN params |-> i], LAMBDA i : params[i].mode = "own")
       IN [k \in DOMAIN own |-> action.args[own[k]].value]

CheckScopeStmt(flow, s) ==
  LET owners == ScopeOwners(s.action)
      resolved == IF s.action.op = "call" THEN ResolveCall(flow, s.action, TRUE) ELSE flow
      clean == Require(resolved, s.action.op = "call" => Signatures[s.action.fn][1].result = "void",
                       "SCOPE-NOFAIL", resolved)
      stable == Require(clean, Len(owners) = 1 /\ HasOwnerName(owners[1]), "SCOPE-OWNER", clean)
  IN IF ~Running(stable) THEN stable ELSE ReserveCleanup(stable, OwnerName(owners[1]), s.action.op)

-----------------------------------------------------------------------------
(* Returns. *)

Outputs(fn) == {p \in ToSet(fn.params) : IsOut(p.mode)}

ForwardsOutputs(fn, e) ==
  /\ e.op = "call"
  /\ LET given == SelectSeq(e.args, LAMBDA a : a.mode = "out")
         wanted == SelectSeq(fn.params, LAMBDA p : IsOut(p.mode))
     IN /\ Len(given) = Len(wanted)
        /\ \A i \in DOMAIN given : OwnerName(given[i].value) = wanted[i].name

ClassifyStatusReturn(fn, e) ==
  CASE e.op = "status" -> IF e.code = 0 THEN "success" ELSE "failure"
    [] ForwardsOutputs(fn, e) -> "forwarded"
    [] OTHER -> "unknown"

ReservedAtReturn == {"live", "cleanup_reserved", "dismantling"}

OutReturnFault(flow, fn, e) ==
  LET outcome == ClassifyStatusReturn(fn, e)
      out(p) == flow.bindings[p.name]
  IN CASE outcome = "success" ->
            IF \E p \in Outputs(fn) : out(p).init # "initialized" THEN "OUT-CALLEE-SUCCESS"
            ELSE IF \E p \in Outputs(fn) : p.mode = "out_own" /\ out(p).owner # "live"
                 THEN "OUT-OWNCOMMIT" ELSE NoFault
       [] outcome = "failure" ->
            IF \E p \in Outputs(fn) : out(p).init = "initialized" THEN "OUT-CALLEE-FAIL"
            ELSE IF \E p \in Outputs(fn) : out(p).owner \in ReservedAtReturn
                 THEN "OUT-OWNFAIL" ELSE NoFault
       [] outcome = "forwarded" -> NoFault
       [] outcome = "unknown" -> "OUT-CALLEE-RETURN"

VerifyOutReturn(flow, fn, e) ==
  IF Outputs(fn) = {} THEN flow
  ELSE Require(flow, OutReturnFault(flow, fn, e) = NoFault, OutReturnFault(flow, fn, e), flow)

CheckReturn(flow, fn, s) ==
  LET shaped == Require(flow, (s.value = Absent) = (fn.result = "void"), "FUNCTION-RETURN", flow)
      valued == IF s.value = Absent THEN shaped
                ELSE RequireConversion(CheckExpr(shaped, s.value), s.value, fn.result)
      moved == IF ~Running(valued) \/ fn.result # "resource" THEN valued
               ELSE IF HasOwnerName(s.value) THEN Move(valued, OwnerName(s.value))
               ELSE Require(valued, s.value.op \in {"aggregate", "call"}, "OWN-RETURN", valued)
      proved == IF Running(moved) THEN VerifyOutReturn(moved, fn, s.value) ELSE moved
      ended == VerifyScopeExit(proved, DOMAIN proved.bindings)
  IN [ended EXCEPT !.reachable = FALSE]

-----------------------------------------------------------------------------
(* Statements. A block is a sequence of statements; the flow state after an   *)
(* unreachable statement is kept, and the statements that follow are skipped. *)

RECURSIVE CheckBlock(_, _, _), CheckStatement(_, _, _)

CheckItem(acc, fn, item) ==
  IF ~Running(acc.flow) \/ ~acc.flow.reachable THEN acc
  ELSE CASE item.kind = "local" ->
              [acc EXCEPT !.flow = CheckLocal(acc.flow, item), !.locals = @ \union {item.name}]
         [] item.kind = "scope" ->
              LET after == CheckScopeStmt(acc.flow, item)
              IN [acc EXCEPT !.flow = after,
                             !.cleanups = IF Running(after)
                                          THEN Append(@, OwnerName(ScopeOwners(item.action)[1]))
                                          ELSE @]
         [] OTHER -> [acc EXCEPT !.flow = CheckStatement(acc.flow, fn, item)]

CheckBlock(flow, fn, items) ==
  LET done == FoldLeft(LAMBDA acc, item : CheckItem(acc, fn, item),
                       [flow |-> flow, locals |-> {}, cleanups |-> <<>>], items)
      consumed == FoldRight(LAMBDA name, f : ConsumeReservedCleanup(f, name),
                            done.cleanups, done.flow)
      ended == IF done.flow.reachable THEN VerifyScopeExit(consumed, done.locals) ELSE done.flow
  IN IF ~Running(done.flow) THEN done.flow
     ELSE [ended EXCEPT !.bindings = Without(@, done.locals)]

CheckIf(flow, fn, s) ==
  LET checked == CheckBool(flow, s.cond)
      yes == CheckBlock(Refine(checked, checked, s.cond, TRUE), fn, s.then)
      no == CheckBlock(Refine(checked, checked, s.cond, FALSE), fn, s.else)
  IN IF Running(checked) THEN Merge(yes, no) ELSE checked

MaxLoopRounds == 32

RECURSIVE LoopState(_, _, _, _)
\* The loop head after at most rounds passes over the body: every way to leave the
\* body joins the head, as if the back edge were always taken.
LoopState(head, fn, s, rounds) ==
  LET checked == CheckBool(head, s.cond)
      body == CheckBlock(Refine(checked, checked, s.cond, TRUE), fn, s.body)
      merged == Merge(head, [body EXCEPT !.reachable = TRUE])
  IN IF rounds = 0 THEN head
     ELSE IF ~Running(checked) THEN checked
     ELSE IF ~Running(body) \/ FlowEquivalent(merged, head) THEN merged
     ELSE LoopState(merged, fn, s, rounds - 1)

CheckWhile(flow, fn, s) ==
  LET head == LoopState([flow EXCEPT !.loops = @ + 1], fn, s, MaxLoopRounds)
      exit == Merge(flow, head)
  IN IF Running(head)
     THEN [Refine(exit, exit, s.cond, FALSE) EXCEPT !.loops = flow.loops] ELSE head

\* The initializer belongs to the enclosing block; the update is the last statement
\* of the body.
CheckFor(flow, fn, s) ==
  LET started == CheckLocal(flow, s.init)
  IN IF Running(started)
     THEN CheckWhile(started, fn, [s EXCEPT !.kind = "while",
                                            !.body = Append(@, [kind |-> "expr", expr |-> s.update])])
     ELSE started

SwitchCase(flow, fn, s, c) ==
  CheckBlock(IF c.default THEN flow ELSE RefineSwitchCase(s.subject, c.value, flow), fn, c.body)

CheckSwitch(flow, fn, s) ==
  LET checked == CheckExpr(flow, s.subject)
      entry == Require(checked, TypeOf(flow, s.subject) \in {"integer", "bool"},
                       "SWITCH-TYPE", checked)
      exits == [i \in DOMAIN s.cases |-> SwitchCase(entry, fn, s, s.cases[i])]
      all == IF \E c \in ToSet(s.cases) : c.default THEN exits ELSE Append(exits, entry)
  IN IF Running(entry) THEN FoldLeft(Merge, Head(all), Tail(all)) ELSE entry

CheckJump(flow) ==
  LET inside == Require(flow, flow.loops > 0, "LOOP-CONTEXT", flow)
  IN [VerifyScopeExit(inside, DOMAIN inside.bindings) EXCEPT !.reachable = FALSE]

CheckUnsafe(flow, fn, s) ==
  LET done == CheckBlock([flow EXCEPT !.unsafe = @ + 1], fn, s.body)
  IN [done EXCEPT !.unsafe = @ - 1]

CheckStatement(flow, fn, s) ==
  CASE s.kind = "block" -> CheckBlock(flow, fn, s.body)
    [] s.kind = "expr" -> CheckExpr(flow, s.expr)
    [] s.kind = "if" -> CheckIf(flow, fn, s)
    [] s.kind = "while" -> CheckWhile(flow, fn, s)
    [] s.kind = "for" -> CheckFor(flow, fn, s)
    [] s.kind = "switch" -> CheckSwitch(flow, fn, s)
    [] s.kind \in {"break", "continue"} -> CheckJump(flow)
    [] s.kind = "return" -> CheckReturn(flow, fn, s)
    [] s.kind = "unsafe" -> CheckUnsafe(flow, fn, s)
    [] s.kind = "when" -> IF s.holds THEN CheckBlock(flow, fn, s.body) ELSE flow

-----------------------------------------------------------------------------
(* Functions. *)

Parameter(p) ==
  LET owner == CASE p.mode = "own" -> "live"
                 [] p.type = "resource" /\ ~IsOut(p.mode) -> "none"
                 [] p.type = "resource" \/ p.mode = "out_own" -> "uninitialized"
                 [] OTHER -> "none"
  IN Fresh(p.type, IF IsOut(p.mode) THEN "uninitialized" ELSE "initialized", owner, TRUE)

EntryFlow(fn) ==
  FoldLeft(LAMBDA f, p : Declare(f, p.name, Parameter(p)), EmptyFlow, fn.params)

CheckFunction(fn) ==
  LET body == CheckBlock(EntryFlow(fn), fn, fn.body)
      returned == Require(body, body.reachable => fn.result = "void", "FUNCTION-RETURN", body)
      ended == IF returned.reachable THEN VerifyScopeExit(returned, DOMAIN returned.bindings)
               ELSE returned
  IN Require(ended, Outputs(fn) # {} => fn.result = "status", "OUT-RESULT", ended)

Accepted(fn) == CheckFunction(fn).fault = NoFault
=============================================================================
