-------------------------- MODULE CompiledContract --------------------------
(***************************************************************************)
(* The compiler of crates/compiler, which lowers a contract to a manifest  *)
(* of operators and deferred state writes, and the executor of             *)
(* crates/runtime/src/manifest.rs, which runs a manifest on a state store  *)
(* with the plaintext backend.  ContractLanguage gives a call its meaning. *)
(***************************************************************************)
EXTENDS ContractLanguage, FiniteSets

CONSTANTS
  Contracts,        \* the source texts, as syntax trees
  InitialCells,     \* contract -> the stores it may start on
  Senders,
  Arguments,        \* type -> the values a caller can pass
  MaxCalls          \* bound

VARIABLES
  source,      \* the contract that was compiled
  manifest,    \* what the compiler made of it; None when it was refused
  cells,       \* <<state, key>> -> value, where there is one
  last,        \* the last call, the cells before it and its outcome
  calls        \* how many there were

vars == <<source, manifest, cells, last, calls>>

Ref(kind, name) == <<kind, name>>
TypedRef(type, ref) == [type |-> type, ref |-> ref]
Representation(type) ==
  IF type \in {"FheUint", "FheBool"} THEN "Fhe"
  ELSE IF type \in {"Sint", "SecretBool"} THEN "SecretSharing" ELSE "Public"

-----------------------------------------------------------------------------
(* Lowerer *)

Row(name, in, out, opcode, domain) ==
  [name |-> name, in |-> in, out |-> out, opcode |-> opcode, domain |-> domain]

Operations ==
  {Row("FHE.encrypt", <<"uint">>, "FheUint", "fhe.encrypt", "Fhe"),
   Row("FHE.add", <<"FheUint", "FheUint">>, "FheUint", "fhe.add", "Fhe"),
   Row("FHE.sub", <<"FheUint", "FheUint">>, "FheUint", "fhe.sub", "Fhe"),
   Row("FHE.ge", <<"FheUint", "FheUint">>, "FheBool", "fhe.ge", "Fhe"),
   Row("MPC.add", <<"Sint", "Sint">>, "Sint", "mpc.add", "SecretSharing"),
   Row("MPC.sub", <<"Sint", "Sint">>, "Sint", "mpc.sub", "SecretSharing"),
   Row("MPC.ge", <<"Sint", "Sint">>, "SecretBool", "mpc.ge", "SecretSharing"),
   Row("H2S", <<"FheUint">>, "Sint", "convert.h2s", "SecretSharing"),
   Row("H2S", <<"FheBool">>, "SecretBool", "convert.h2s", "SecretSharing"),
   Row("S2H", <<"Sint">>, "FheUint", "convert.s2h", "Fhe"),
   Row("Pick", <<"Sint">>, "Opened", "opening.pick", "Public"),
   Row("receiveEncryptedToken", <<"FheUint">>, "Void", "host.receive_encrypted_token", "Fhe"),
   Row("sendEncryptedToken", <<"address", "FheUint">>, "Void", "host.send_encrypted_token", "Fhe")}

NewLowerer(function) ==
  LET params == {function.params[i].name : i \in DOMAIN function.params}
      \* A later parameter of the same name replaces the earlier one.
      TypeOf(n) == LET i == CHOOSE i \in DOMAIN function.params :
                          /\ function.params[i].name = n
                          /\ \A j \in (i + 1)..Len(function.params) : function.params[j].name # n
                   IN function.params[i].type
  IN [env |-> [n \in params \cup {"msg.sender"} |->
                 IF n \in params THEN TypedRef(TypeOf(n), Ref("input", n))
                 ELSE TypedRef("address", Ref("context", "msg.sender"))],
      operators |-> <<>>, writes |-> <<>>, opening |-> None, refused |-> FALSE]

Refuse(l) == [low |-> [l EXCEPT !.refused = TRUE], value |-> TypedRef("error", None)]
Lowered(l, value) == [low |-> l, value |-> value]

PushNode(l, opcode, domain, inputs, type, state) ==
  LET id == Ref("op", Len(l.operators)) IN
  Lowered([l EXCEPT !.operators = Append(@,
             [id |-> id, opcode |-> opcode, domain |-> domain, inputs |-> inputs,
              type |-> type, state |-> state])],
          TypedRef(type, id))

StateOf(states, name) == SelectSeq(states, LAMBDA s : s.name = name)

\* Slip: only the first argument is checked.
LowerCallUnchecked(l, name, args) ==
  LET rows == {r \in Operations :
                 r.name = name /\ Len(r.in) = Len(args) /\ r.in[1] = args[1].type}
  IN IF rows = {} THEN Refuse(l)
     ELSE LET r == CHOOSE r \in rows : TRUE
          IN PushNode(l, r.opcode, r.domain, [i \in DOMAIN args |-> args[i].ref], r.out, None)

LowerCall(l, name, args) ==
  LET types == [i \in DOMAIN args |-> args[i].type]
      rows == {r \in Operations : r.name = name /\ r.in = types}
  IN IF rows = {} THEN Refuse(l)
     ELSE LET r == CHOOSE r \in rows : TRUE
          IN PushNode(l, r.opcode, r.domain, [i \in DOMAIN args |-> args[i].ref], r.out, None)

RECURSIVE LowerExpression(_, _, _)
LowerExpression(states, l, e) ==
  CASE e.kind = "name" ->
         IF e.name \in DOMAIN l.env THEN Lowered(l, l.env[e.name]) ELSE Refuse(l)
    [] e.kind = "number" -> Lowered(l, TypedRef("uint", Ref("const", e.number)))
    [] e.kind = "index" ->
         LET found == StateOf(states, e.state)
             key == LowerExpression(states, l, e.key)
         IN IF found = <<>> \/ key.low.refused THEN Refuse(l)
            ELSE IF found[1].key = None \/ found[1].key # key.value.type THEN Refuse(l)
            ELSE PushNode(key.low, "load_state", Representation(found[1].type),
                          <<key.value.ref>>, found[1].type, e.state)
    [] e.kind = "call" ->
         LET Argument(acc, a) ==
               LET lowered == LowerExpression(states, acc.low, a)
               IN [low |-> lowered.low, args |-> Append(acc.args, lowered.value)]
             all == FoldLeft(Argument, [low |-> l, args |-> <<>>], e.arguments)
         IN IF all.low.refused THEN Refuse(l) ELSE LowerCall(all.low, e.name, all.args)

\* Slip: the key of a mapping is the caller.
LowerAssignmentToCaller(states, l, target, value) ==
  LET state == IF target.kind = "index" THEN target.state ELSE target.name
      found == StateOf(states, state)
  IN IF found = <<>> THEN Refuse(l).low
     ELSE IF found[1].type # value.type \/ (found[1].key = None) # (target.kind = "name") THEN Refuse(l).low
     ELSE [l EXCEPT !.writes =
             Append(@, [state |-> state, value |-> value.ref,
                        key |-> IF target.kind = "name" THEN None ELSE Ref("context", "msg.sender")])]

LowerAssignment(states, l, target, value) ==
  LET state == IF target.kind = "index" THEN target.state
               ELSE IF target.kind = "name" THEN target.name ELSE None
      found == StateOf(states, state)
      key == IF target.kind = "index" THEN LowerExpression(states, l, target.key)
             ELSE Lowered(l, TypedRef(None, None))
  IN IF found = <<>> \/ key.low.refused THEN Refuse(l).low
     ELSE IF found[1].key # key.value.type \/ found[1].type # value.type THEN Refuse(l).low
     ELSE [key.low EXCEPT !.writes =
             Append(@, [state |-> state, key |-> key.value.ref, value |-> value.ref])]

\* lower, one statement: nothing of it remembers what was written before.
LowerStatement(states, l, s) ==
  LET e == LowerExpression(states, l, s.e) IN
  IF l.refused \/ e.low.refused THEN Refuse(l).low
  ELSE CASE s.kind = "local" ->
              IF e.value.type # s.type THEN Refuse(l).low
              ELSE [e.low EXCEPT !.env = [n \in DOMAIN @ \cup {s.name} |->
                                            IF n = s.name THEN e.value ELSE @[n]]]
         [] s.kind = "assign" -> LowerAssignment(states, e.low, s.target, e.value)
         [] s.kind = "require" ->
              IF e.value.type # "SecretBool" THEN Refuse(l).low
              ELSE PushNode(e.low, "require_secret", "SecretSharing", <<e.value.ref>>, "Void", None).low
         [] s.kind = "return" ->
              IF e.value.type # "Opened" THEN Refuse(l).low
              ELSE [e.low EXCEPT !.opening = e.value.ref]
         [] s.kind = "do" -> e.low

LowerFunction(states, function) ==
  LET Step(l, s) == LowerStatement(states, l, s)
      l == FoldLeft(Step, NewLowerer(function), function.body)
  IN [name |-> function.name, inputs |-> function.params, operators |-> l.operators,
      writes |-> l.writes, opening |-> l.opening, refused |-> l.refused]

StatesAccepted(states) ==
  /\ \A i \in DOMAIN states :
       states[i].type \in {"FheUint", "Sint"} /\ states[i].key \in {None, "address"}
  /\ \A i, j \in DOMAIN states : i # j => states[i].name # states[j].name

Compile(contract) ==
  LET functions == [i \in DOMAIN contract.functions |->
                      LowerFunction(contract.states, contract.functions[i])]
  IN IF StatesAccepted(contract.states) /\ \A i \in DOMAIN functions : ~functions[i].refused
     THEN [states |-> contract.states, functions |-> functions]
     ELSE None

-----------------------------------------------------------------------------
(* PlaintextManifestBackend: a payload is decoded for the type it is used   *)
(* as; arithmetic is that of u128, and checked.                             *)

Decodes(v, type) == v.type = type /\ v.payload # Junk

Backend(opcode, args) ==
  LET x == args[1].payload
      y == args[Len(args)].payload
      Both(type) == Decodes(args[1], type) /\ Decodes(args[2], type)
      Sum(type) == IF Both(type) THEN Arithmetic(type, x + y) ELSE Error("InvalidValue")
      Difference(type) == IF Both(type) THEN Arithmetic(type, x - y) ELSE Error("InvalidValue")
      Comparison(type, bool) == IF Both(type) THEN Value(bool, x >= y) ELSE Error("InvalidValue")
  IN CASE opcode = "fhe.encrypt" ->
            IF args[1].type = "uint" THEN Value("FheUint", x) ELSE Error("InvalidValue")
       [] opcode = "fhe.add" -> Sum("FheUint")
       [] opcode = "mpc.add" -> Sum("Sint")
       [] opcode = "fhe.sub" -> Difference("FheUint")
       [] opcode = "mpc.sub" -> Difference("Sint")
       [] opcode = "fhe.ge" -> Comparison("FheUint", "FheBool")
       [] opcode = "mpc.ge" -> Comparison("Sint", "SecretBool")
       [] opcode = "convert.h2s" ->
            IF args[1].type \notin {"FheUint", "FheBool"} THEN Error("TypeMismatch")
            ELSE IF ~Decodes(args[1], args[1].type) THEN Error("InvalidValue")
            ELSE Value(IF args[1].type = "FheUint" THEN "Sint" ELSE "SecretBool", x)
       [] opcode = "convert.s2h" ->
            IF Decodes(args[1], "Sint") THEN Value("FheUint", x) ELSE Error("InvalidValue")
       [] OTHER -> Error("UnsupportedOperator")

-----------------------------------------------------------------------------
(* ManifestExecutor *)

\* resolve_owned: a literal is a u128 only here.
Resolved(values, ref) ==
  IF ref[1] = "const"
  THEN IF ref[2] > MaxValue THEN Error("InvalidManifest") ELSE Value("uint", ref[2])
  ELSE IF ref \in DOMAIN values THEN values[ref] ELSE Error("UnknownReference")

OfType(v, type) == IF Failed(v) \/ v.type = type THEN v ELSE Error("TypeMismatch")

LoadState(m, store, operator, args) ==
  LET declaration == StateOf(m.states, operator.state)[1]
      cell == <<operator.state, args[1].payload>>
  IN IF declaration.key # "address" \/ args[1].type # "address" THEN Error("InvalidStateKey")
     ELSE IF cell \in DOMAIN store THEN OfType(store[cell], operator.type)
     ELSE Error("StateNotFound")

ExecuteOperator(m, store, operator, args) ==
  CASE operator.opcode = "load_state" -> LoadState(m, store, operator, args)
    [] operator.opcode = "require_secret" ->
         IF ~Decodes(args[1], "SecretBool") THEN Error("InvalidValue")
         ELSE IF args[1].payload THEN VoidValue ELSE Error("PolicyRejected")
    [] operator.opcode = "opening.pick" ->
         IF Decodes(args[1], "Sint") THEN Value("Opened", args[1].payload)
         ELSE Error("InvalidValue")
    [] operator.opcode \in {"host.receive_encrypted_token", "host.send_encrypted_token"} ->
         VoidValue
    [] OTHER ->
         IF operator.domain \notin {"Fhe", "SecretSharing"} THEN Error("UnsupportedOperator")
         ELSE OfType(Backend(operator.opcode, args), operator.type)

Operate(m, store, acc, operator) ==
  LET args == [i \in DOMAIN operator.inputs |-> Resolved(acc.values, operator.inputs[i])]
      output == IF \E i \in DOMAIN args : Failed(args[i]) THEN FirstError(args)
                ELSE ExecuteOperator(m, store, operator, args)
      host == IF operator.opcode = "host.receive_encrypted_token" THEN "receiveEncryptedToken"
              ELSE IF operator.opcode = "host.send_encrypted_token" THEN "sendEncryptedToken"
              ELSE None
  IN IF acc.error # None THEN acc
     ELSE IF Failed(output) THEN [acc EXCEPT !.error = output.error]
     ELSE [acc EXCEPT
             !.values = [r \in DOMAIN @ \cup {operator.id} |->
                           IF r = operator.id THEN output ELSE @[r]],
             !.calls = IF host = None THEN @ ELSE Append(@, [name |-> host, arguments |-> args])]

\* validate_inputs: the inputs are a map, two parameters of one name are one.
InputError(function, inputs) ==
  IF Cardinality(DOMAIN inputs) # Len(function.inputs)
     \/ \E i \in DOMAIN function.inputs : function.inputs[i].name \notin DOMAIN inputs
  THEN "MissingInput"
  ELSE IF \E i \in DOMAIN function.inputs :
            inputs[function.inputs[i].name].type # function.inputs[i].type
       THEN "TypeMismatch" ELSE None

\* A deferred write, as the cell and the value, or an error.
WriteOf(m, values, w) ==
  LET state == StateOf(m.states, w.state)[1]
      key == IF w.key = None THEN Value("address", None) ELSE Resolved(values, w.key)
      value == OfType(Resolved(values, w.value), state.type)
  IN [cell |-> <<w.state, key.payload>>, value |-> value,
      error |-> IF (w.key = None) # (state.key = None) THEN "InvalidStateKey"
                ELSE IF Failed(key) THEN key.error
                ELSE IF key.type # "address" THEN "InvalidStateKey" ELSE value.error]

Refused(e) == [error |-> e, writes |-> <<>>, calls |-> <<>>, opening |-> None]

Evaluate(m, store, name, sender, inputs) ==
  LET found == SelectSeq(m.functions, LAMBDA f : f.name = name)
      function == found[1]
      refs == {Ref("context", "msg.sender")} \cup {Ref("input", n) : n \in DOMAIN inputs}
      start == [values |-> [r \in refs |-> IF r[1] = "input" THEN inputs[r[2]]
                                           ELSE Value("address", sender)],
                calls |-> <<>>, error |-> None]
      Step(acc, operator) == Operate(m, store, acc, operator)
      end == FoldLeft(Step, start, function.operators)
      writes == [i \in DOMAIN function.writes |-> WriteOf(m, end.values, function.writes[i])]
      wrong == SelectSeq(writes, LAMBDA w : w.error # None)
      opening == IF function.opening = None THEN None ELSE end.values[function.opening]
  IN IF found = <<>> THEN Refused("FunctionNotFound")
     ELSE IF InputError(function, inputs) # None THEN Refused(InputError(function, inputs))
     ELSE IF end.error # None THEN Refused(end.error)
     ELSE IF wrong # <<>> THEN Refused(wrong[1].error)
     ELSE [error |-> None, writes |-> writes, calls |-> end.calls, opening |-> opening]

\* Slip: the first write to a cell wins.
CommitFirst(store, writes) ==
  LET Put(c, w) == Written(c, w.cell, w.value) IN FoldLeft(Put, store, Reverse(writes))

\* commit: the writes in the order of the text.
Commit(store, writes) ==
  LET Put(c, w) == Written(c, w.cell, w.value) IN FoldLeft(Put, store, writes)

NoCall == [name |-> None, sender |-> None, inputs |-> <<>>, before |-> <<>>,
           error |-> None, calls |-> <<>>, opening |-> None]

Init ==
  /\ source \in Contracts
  /\ manifest = Compile(source)
  /\ cells \in InitialCells[source]
  /\ last = NoCall /\ calls = 0

\* execute
Execute(name, sender, inputs) ==
  LET outcome == Evaluate(manifest, cells, name, sender, inputs) IN
  /\ manifest # None /\ calls < MaxCalls /\ calls' = calls + 1
  /\ cells' = Commit(cells, outcome.writes)
  /\ last' = [name |-> name, sender |-> sender, inputs |-> inputs, before |-> cells,
              error |-> outcome.error, calls |-> outcome.calls, opening |-> outcome.opening]
  /\ UNCHANGED <<source, manifest>>

\* What invocation_inputs decodes for a function: a value for each name.
InputsOf(function) ==
  LET names == {function.params[i].name : i \in DOMAIN function.params}
      TypesOf(n) == {function.params[i].type : i \in {j \in DOMAIN function.params :
                                                        function.params[j].name = n}}
  IN {inputs \in [names -> UNION {Arguments[t] : t \in DOMAIN Arguments}] :
        \A n \in names : inputs[n].type \in TypesOf(n)}

Next ==
  \E i \in DOMAIN source.functions, sender \in Senders :
    \E inputs \in InputsOf(source.functions[i]) :
      Execute(source.functions[i].name, sender, inputs)

Spec == Init /\ [][Next]_vars

-----------------------------------------------------------------------------
Called == SelectSeq(source.functions, LAMBDA f : f.name = last.name)[1]
SameName(params) == \E i, j \in DOMAIN params : i # j /\ params[i].name = params[j].name
HasJunk == \/ \E n \in DOMAIN last.inputs : last.inputs[n].payload = Junk
           \/ \E c \in DOMAIN last.before : last.before[c].payload = Junk

\* The literals of an expression, and of a function.
RECURSIVE LiteralsOf(_)
LiteralsOf(e) ==
  CASE e.kind = "number" -> {e.number}
    [] e.kind = "call" -> UNION {LiteralsOf(e.arguments[i]) : i \in DOMAIN e.arguments}
    [] OTHER -> {}
Literals(f) == UNION {LiteralsOf(f.body[i].e) : i \in DOMAIN f.body}

(* What the compiler accepts does not go wrong: a call fails because a cell *)
(* is missing, a require does not hold or a number leaves u128, and for no  *)
(* fault of the manifest; a payload nobody can decode, a literal above u128 *)
(* and two parameters, or two functions, of one name are what the compiler  *)
(* lets pass.  Every cell keeps the type its state was declared with.       *)
AcceptedCallsDoNotGoWrong ==
  manifest # None =>
    /\ last.error = "InvalidValue" => HasJunk
    /\ last.error = "InvalidManifest" => \E n \in Literals(Called) : n > MaxValue
    /\ last.error \in {"MissingInput", "TypeMismatch"} =>
         SameName(Called.params) \/ SameName(source.functions)
    /\ last.error \in {None, "StateNotFound", "PolicyRejected", "Overflow", "Underflow",
                       "InvalidValue", "InvalidManifest", "MissingInput", "TypeMismatch"}
    /\ \A c \in DOMAIN cells : cells[c].type = StateOf(source.states, c[1])[1].type

Means(inOrder) ==
  last.name # None /\ ~SameName(Called.params) /\ ~SameName(source.functions) =>
    LET effect == Effect(Called, last.sender, last.inputs, last.before, inOrder) IN
    /\ last.error = effect.error /\ cells = effect.cells
    /\ last.calls = effect.calls /\ last.opening = effect.opening

(* A call does what its text says when every state in it is read as it was  *)
(* before the call and the last write to a cell counts; a call that fails   *)
(* leaves no write, no plan and no opening.                                 *)
CallsReadTheStateBefore == Means(FALSE)

(* The statements of a function take effect one after the other, as the     *)
(* transfer of docs/privacy-contract-language.md is written.                *)
StatementsTakeEffectInOrder == Means(TRUE)
=============================================================================
