------------------------- MODULE MCConfidentialToken -------------------------
(* The token contract, and every function of up to two of the statements    *)
(* below, called on small stores.                                           *)
EXTENDS ConfidentialToken, TLC

CONSTANTS alice, bob

Share(e) == Call("H2S", <<e>>)
AtLeast(a, b) == Call("H2S", <<Call("FHE.ge", <<a, b>>)>>)
x == Name("x")
s == Name("s")
to == Name("to")
from == Name("msg.sender")
At(key) == Index("balance", key)

Statements ==
  { Local("Sint", "s", Share(x)),
    Local("FheUint", "x", Call("FHE.sub", <<At(from), x>>)),
    Local("address", "msg.sender", to),
    Assign(At(from), Call("FHE.add", <<At(to), x>>)),
    Assign(At(to), Call("FHE.sub", <<At(from), x>>)),
    Assign(At(to), Call("S2H", <<Call("MPC.add", <<s, Share(x)>>)>>)),
    Assign(At(to), x),
    Assign(Name("total"), Share(At(from))),
    Assign(Name("total"), s),
    Require(AtLeast(At(to), x)),
    Require(Call("MPC.ge", <<s, s>>)),
    Return(Call("Pick", <<s>>)),
    Return(Call("Pick", <<Call("MPC.sub", <<Share(At(to)), Share(x)>>)>>)),
    Do(Call("sendEncryptedToken", <<to, x>>)),
    Do(Call("receiveEncryptedToken", <<Call("FHE.encrypt", <<Number(MaxValue + 1)>>)>>)),
    \* Refused wherever they stand.
    Assign(At(to), Share(x)),
    Assign(Name("balance"), x),
    Assign(Index("total", to), Share(x)),
    Require(Call("FHE.ge", <<x, x>>)),
    Do(Call("FHE.add", <<x, Share(x)>>)),
    Return(s) }

Bodies == {<<a>> : a \in Statements} \cup {<<a, b>> : a, b \in Statements}

TwoStates == <<State("balance", "FheUint", "address"), State("total", "Sint", None)>>
Small(params, body) == Contract(TwoStates, <<Function("f", params, body)>>)
ToAndX == <<Param("to", "address"), Param("x", "FheUint")>>

\* Two parameters of one name, a parameter in the place of the caller, and
\* two functions of one name.
Odd ==
  { Small(<<Param("x", "uint"), Param("x", "FheUint")>>, <<Assign(At(from), x)>>),
    Small(<<Param("msg.sender", "address"), Param("x", "FheUint")>>, <<Assign(At(from), x)>>),
    Contract(TwoStates,
      <<Function("f", ToAndX, <<Assign(At(to), x)>>),
        Function("f", <<Param("x", "Sint")>>, <<Assign(Name("total"), x)>>)>>),
    Contract(TwoStates \o TwoStates, <<Function("f", ToAndX, <<Assign(At(to), x)>>)>>) }

AllContracts == {Token} \cup Odd \cup {Small(ToAndX, b) : b \in Bodies}

OnlyToken == {Token}

Held(a, b) == <<"balance", alice>> :> Value("FheUint", a) @@ <<"balance", bob>> :> Value("FheUint", b)
Stores ==
  [c \in AllContracts |->
     IF c = Token THEN {<<>>}
     ELSE {Held(1, 2), Held(2, Junk), <<"balance", alice>> :> Value("FheUint", 1)}]

Passed ==
  "address" :> {Value("address", a) : a \in Senders} @@
  "uint" :> {Value("uint", 1)} @@
  "FheUint" :> {Value("FheUint", 1), Value("FheUint", 2), Value("FheUint", Junk)} @@
  "Sint" :> {Value("Sint", 1)}
=============================================================================
