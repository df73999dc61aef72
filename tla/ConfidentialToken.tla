-------------------------- MODULE ConfidentialToken --------------------------
(***************************************************************************)
(* The contract of examples/contracts/ConfidentialToken.ppsc, compiled and *)
(* called by its users.                                                    *)
(***************************************************************************)
EXTENDS CompiledContract, FiniteSetsExt

Balance(who) == Index("balance", Name(who))
Sufficient ==
  <<Local("SecretBool", "sufficient",
          Call("H2S", <<Call("FHE.ge", <<Balance("msg.sender"), Name("amount")>>)>>)),
    Require(Name("sufficient"))>>
Debit ==
  Assign(Balance("msg.sender"), Call("FHE.sub", <<Balance("msg.sender"), Name("amount")>>))
Credit(who) == Assign(Balance(who), Call("FHE.add", <<Balance(who), Name("amount")>>))

CreateAccount ==
  Function("createAccount", <<>>,
    <<Assign(Balance("msg.sender"), Call("FHE.encrypt", <<Number(0)>>))>>)

Deposit ==
  Function("deposit", <<Param("amount", "FheUint")>>,
    <<Do(Call("receiveEncryptedToken", <<Name("amount")>>)), Credit("msg.sender")>>)

Withdraw ==
  Function("withdraw", <<Param("amount", "FheUint")>>,
    Sufficient \o
    <<Debit, Do(Call("sendEncryptedToken", <<Name("msg.sender"), Name("amount")>>))>>)

Transfer ==
  Function("transfer", <<Param("to", "address"), Param("amount", "FheUint")>>,
    Sufficient \o <<Debit, Credit("to")>>)

GetBalance ==
  Function("getBalance", <<>>,
    <<Local("Sint", "balanceShare", Call("H2S", <<Balance("msg.sender")>>)),
      Return(Call("Pick", <<Name("balanceShare")>>))>>)

Token ==
  Contract(<<State("balance", "FheUint", "address")>>,
           <<CreateAccount, Deposit, Withdraw, Transfer, GetBalance>>)

-----------------------------------------------------------------------------
SupplyOf(store) == MapThenSumSet(LAMBDA c : store[c].payload, DOMAIN store)

\* The tokens that the plans of a call bring in, less those they send out.
NetOf(plans) ==
  LET Amount(p) == IF p.name = "receiveEncryptedToken" THEN p.arguments[1].payload
                   ELSE 0 - p.arguments[2].payload
      Add(n, p) == n + Amount(p)
  IN FoldLeft(Add, 0, plans)

(* The balances change by what the plans of the call move, with two         *)
(* exceptions: a transfer to oneself creates its amount, since the credit   *)
(* is computed from the balance before the debit and overwrites it, and an  *)
(* account created again loses its balance.  No other call, and no call     *)
(* that fails, creates or destroys anything.                                *)
SupplyFollowsThePlans ==
  [][source = Token =>
       LET change == SupplyOf(cells') - SupplyOf(cells) - NetOf(last'.calls)
           sender == last'.sender
       IN \/ change = 0
          \/ /\ last'.name = "transfer" /\ last'.inputs["to"].payload = sender
             /\ change = last'.inputs["amount"].payload
          \/ /\ last'.name = "createAccount" /\ <<"balance", sender>> \in DOMAIN cells
             /\ change = 0 - cells[<<"balance", sender>>].payload]_vars
=============================================================================
