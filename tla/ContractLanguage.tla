-------------------------- MODULE ContractLanguage --------------------------
(***************************************************************************)
(* The syntax of the contract language of crates/compiler and the meaning  *)
(* of a call, read off its text: what a compiled contract is held against. *)
(* Values carry their type; Junk is a payload no backend can decode, which *)
(* any client may upload.                                                  *)
(***************************************************************************)
EXTENDS Integers, Sequences, SequencesExt

CONSTANTS None, Junk, MaxValue   \* MaxValue is u128::MAX

-----------------------------------------------------------------------------
(* The syntax tree *)

Name(n) == [kind |-> "name", name |-> n]
Number(n) == [kind |-> "number", number |-> n]
Index(state, key) == [kind |-> "index", state |-> state, key |-> key]
Call(name, arguments) == [kind |-> "call", name |-> name, arguments |-> arguments]

Local(type, name, e) == [kind |-> "local", type |-> type, name |-> name, e |-> e]
Assign(target, e) == [kind |-> "assign", target |-> target, e |-> e]
Require(e) == [kind |-> "require", e |-> e]
Return(e) == [kind |-> "return", e |-> e]
Do(e) == [kind |-> "do", e |-> e]

Param(name, type) == [name |-> name, type |-> type]
Function(name, params, body) == [name |-> name, params |-> params, body |-> body]
State(name, type, key) == [name |-> name, type |-> type, key |-> key]
Contract(states, functions) == [states |-> states, functions |-> functions]

-----------------------------------------------------------------------------
(* Values and errors *)

Value(type, payload) == [type |-> type, payload |-> payload, error |-> None]
Error(e) == [type |-> "Void", payload |-> None, error |-> e]
VoidValue == Value("Void", None)
Failed(v) == v.error # None
FirstError(vs) == vs[SelectInSeq(vs, Failed)]

-----------------------------------------------------------------------------
(* The meaning of an expression where env gives the names, cells the state. *)

Arithmetic(type, n) ==
  IF n < 0 THEN Error("Underflow") ELSE IF n > MaxValue THEN Error("Overflow")
  ELSE Value(type, n)

Meaning(name, args) ==
  LET x == args[1].payload
      y == args[Len(args)].payload
      type == args[1].type
      hosted == name \in {"receiveEncryptedToken", "sendEncryptedToken"}
  IN
  IF ~hosted /\ Junk \in {x, y} THEN Error("InvalidValue")
  ELSE CASE name = "FHE.encrypt" -> IF x > MaxValue THEN Error("InvalidManifest")
                                    ELSE Value("FheUint", x)
         [] name \in {"FHE.add", "MPC.add"} -> Arithmetic(type, x + y)
         [] name \in {"FHE.sub", "MPC.sub"} -> Arithmetic(type, x - y)
         [] name = "FHE.ge" -> Value("FheBool", x >= y)
         [] name = "MPC.ge" -> Value("SecretBool", x >= y)
         [] name = "H2S" -> Value(IF type = "FheUint" THEN "Sint" ELSE "SecretBool", x)
         [] name = "S2H" -> Value("FheUint", x)
         [] name = "Pick" -> Value("Opened", x)
         [] hosted -> VoidValue

\* A call of the host is remembered in the order of the text.
RECURSIVE Denotes(_, _, _)
Denotes(e, env, cells) ==
  CASE e.kind = "name" -> [value |-> env[e.name], calls |-> <<>>]
    [] e.kind = "number" -> [value |-> Value("uint", e.number), calls |-> <<>>]
    [] e.kind = "index" ->
         LET key == Denotes(e.key, env, cells)
             cell == <<e.state, key.value.payload>>
         IN [value |-> IF Failed(key.value) THEN key.value
                       ELSE IF cell \in DOMAIN cells THEN cells[cell] ELSE Error("StateNotFound"),
             calls |-> key.calls]
    [] e.kind = "call" ->
         LET parts == [i \in DOMAIN e.arguments |-> Denotes(e.arguments[i], env, cells)]
             args == [i \in DOMAIN parts |-> parts[i].value]
             inner == FlattenSeq([i \in DOMAIN parts |-> parts[i].calls])
             result == IF \E i \in DOMAIN args : Failed(args[i]) THEN FirstError(args)
                       ELSE Meaning(e.name, args)
         IN [value |-> result,
             calls |-> IF e.name \in {"receiveEncryptedToken", "sendEncryptedToken"}
                       THEN Append(inner, [name |-> e.name, arguments |-> args]) ELSE inner]

(* The meaning of a function: its statements one after the other.  With     *)
(* inOrder a statement sees what those before it wrote, without it every    *)
(* statement sees the cells as they were before the call.                   *)
Written(cells, cell, v) ==
  [c \in DOMAIN cells \cup {cell} |-> IF c = cell THEN v ELSE cells[c]]

Statement(s, before, acc, inOrder) ==
  LET seen == IF inOrder THEN acc.cells ELSE before
      e == Denotes(s.e, acc.env, seen)
      done == [acc EXCEPT !.calls = @ \o e.calls]
  IN
  IF acc.error # None THEN acc
  ELSE IF Failed(e.value) THEN [acc EXCEPT !.error = e.value.error]
  ELSE CASE s.kind = "local" ->
              [done EXCEPT !.env = [n \in DOMAIN @ \cup {s.name} |->
                                      IF n = s.name THEN e.value ELSE @[n]]]
         [] s.kind = "assign" ->
              LET cell == IF s.target.kind = "name" THEN <<s.target.name, None>>
                          ELSE <<s.target.state, Denotes(s.target.key, acc.env, seen).value.payload>>
              IN [done EXCEPT !.cells = Written(@, cell, e.value)]
         [] s.kind = "require" ->
              IF e.value.payload THEN done ELSE [done EXCEPT !.error = "PolicyRejected"]
         [] s.kind = "return" -> [done EXCEPT !.opening = e.value]
         [] s.kind = "do" -> done

\* What a call leaves behind; one that fails leaves the cells alone.
Effect(function, sender, inputs, cells, inOrder) ==
  LET env == [n \in DOMAIN inputs \cup {"msg.sender"} |->
                IF n \in DOMAIN inputs THEN inputs[n] ELSE Value("address", sender)]
      Step(acc, s) == Statement(s, cells, acc, inOrder)
      end == FoldLeft(Step, [env |-> env, cells |-> cells, calls |-> <<>>, opening |-> None,
                             error |-> None], function.body)
  IN IF end.error # None
     THEN [error |-> end.error, cells |-> cells, calls |-> <<>>, opening |-> None]
     ELSE [error |-> None, cells |-> end.cells, calls |-> end.calls, opening |-> end.opening]
=============================================================================
