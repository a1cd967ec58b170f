-------------------------- MODULE DemoDriversProofs --------------------------
(* What the devnet scripts rely on, for any number of runs, any orders, slots *)
(* and failures: the fixed tip covers, the swap a demo sends can work, and a  *)
(* demo that reports a swap made it.  The argument: a script is at one step   *)
(* at a time, its call to the client belongs to that step, and every token    *)
(* account holds what the step still has to come needs.                       *)
EXTENDS DemoDrivers, SdkMirrorProofs

-----------------------------------------------------------------------------
(* The relay takes what the builders build. *)

(* The pool has two mints, each the other's other. *)
LEMMA MintsOf ==
  ASSUME NEW mint \in Mints
  PROVE  OtherMint(mint) = IF mint = "A" THEN "B" ELSE "A"
<1>1. OtherMint("A") = "B"
  BY DEF Mints, OtherMint
<1>2. OtherMint("B") = "A"
  BY DEF Mints, OtherMint
<1> QED
  BY <1>1, <1>2 DEF Mints

(* Every list an SDK built or a builder patched is made of metas. *)
AreMetas(list, n) ==
  /\ DOMAIN list = 1 .. n
  /\ \A i \in 1 .. n : list[i] = Meta(list[i].pubkey) \/ list[i] = Signer(list[i].pubkey)

(* What the two kinds of meta say. *)
LEMMA SignedOrNot ==
  ASSUME NEW p
  PROVE  /\ Meta(p).pubkey = p /\ Signer(p).pubkey = p
         /\ ~Meta(p).isSigner /\ Signer(p).isSigner
BY DEF Meta, Signer

(* Setting the signer flag of a meta. *)
LEMMA Resigned ==
  ASSUME NEW p, NEW v
  PROVE  /\ [Meta(p) EXCEPT !.isSigner = v] = [pubkey |-> p, isSigner |-> v]
         /\ [Signer(p) EXCEPT !.isSigner = v] = [pubkey |-> p, isSigner |-> v]
BY DEF Meta, Signer

(* Replacing the key of a meta, as buildMeteoraSwap does with the two ATAs. *)
LEMMA Renamed ==
  ASSUME NEW p, NEW q
  PROVE  /\ [Meta(p) EXCEPT !.pubkey = q] = Meta(q)
         /\ [Signer(p) EXCEPT !.pubkey = q] = Signer(q)
<1>1. \A b : [[pubkey |-> p, isSigner |-> b] EXCEPT !.pubkey = q] = [pubkey |-> q, isSigner |-> b]
  OBVIOUS
<1> QED
  BY <1>1, Zenon DEF Meta, Signer

(* The relay signs for the escrow and leaves every other meta as it was. *)
LEMMA SignedFor ==
  ASSUME NEW m, m = Meta(m.pubkey) \/ m = Signer(m.pubkey)
  PROVE  [m EXCEPT !.isSigner = @ \/ m.pubkey = "escrow"] =
           IF m.pubkey = "escrow" THEN Signer("escrow") ELSE m
<1>1. PICK v : v = (m.isSigner \/ m.pubkey = "escrow")
  BY Zenon
<1>2. [m EXCEPT !.isSigner = m.isSigner \/ m.pubkey = "escrow"] = [m EXCEPT !.isSigner = v]
  BY <1>1, Zenon
<1>3. ASSUME m.pubkey = "escrow"
      PROVE  [m EXCEPT !.isSigner = v] = IF m.pubkey = "escrow" THEN Signer("escrow") ELSE m
  <2>1. v = TRUE
    BY <1>1, <1>3, Zenon
  <2>2. [m EXCEPT !.isSigner = v] = Signer("escrow")
    BY <1>3, <2>1, Resigned DEF Signer
  <2> QED
    BY <1>3, <2>2
<1>4. ASSUME m.pubkey # "escrow", m = Meta(m.pubkey)
      PROVE  [m EXCEPT !.isSigner = v] = IF m.pubkey = "escrow" THEN Signer("escrow") ELSE m
  <2>1. ~m.isSigner
    BY <1>4, SignedOrNot
  <2>2. v = FALSE
    BY <1>1, <1>4, <2>1, Zenon
  <2>3. [m EXCEPT !.isSigner = v] = m
    BY <1>4, <2>2, Resigned DEF Meta
  <2> QED
    BY <1>4, <2>3
<1>5. ASSUME m.pubkey # "escrow", m = Signer(m.pubkey)
      PROVE  [m EXCEPT !.isSigner = v] = IF m.pubkey = "escrow" THEN Signer("escrow") ELSE m
  <2>1. m.isSigner
    BY <1>5, SignedOrNot
  <2>2. v = TRUE
    BY <1>1, <2>1, Zenon
  <2>3. [m EXCEPT !.isSigner = v] = m
    BY <1>5, <2>2, Resigned DEF Signer
  <2> QED
    BY <1>5, <2>3
<1>6. [m EXCEPT !.isSigner = v] = IF m.pubkey = "escrow" THEN Signer("escrow") ELSE m
  BY <1>3, <1>4, <1>5
<1> QED
  BY <1>2, <1>6, Zenon

(* What the relay hands to the DEX of a list a builder patched. *)
LEMMA Relayed ==
  ASSUME NEW L, NEW n \in Nat, AreMetas(L, n),
         \A i \in 1 .. n : L[i] = Signer(L[i].pubkey) => L[i].pubkey = "escrow"
  PROVE  LET metas == EscrowUnsigned(L)
         IN /\ DOMAIN metas = 1 .. n
            /\ Len(CpiMetas(metas)) = n
            /\ Signable(metas)
            /\ \A i \in 1 .. n :
                 /\ metas[i].pubkey = L[i].pubkey
                 /\ CpiMetas(metas)[i] = IF L[i].pubkey = "escrow" THEN Signer("escrow") ELSE L[i]
<1> DEFINE metas == EscrowUnsigned(L)
           cpi == CpiMetas(metas)
<1>1. /\ DOMAIN metas = 1 .. n
      /\ \A i \in 1 .. n :
           metas[i] = IF L[i].pubkey = "escrow" THEN Meta("escrow") ELSE L[i]
  BY DEF EscrowUnsigned, AreMetas
<1>2. \A i \in 1 .. n : metas[i] = Meta(L[i].pubkey)
  BY <1>1 DEF AreMetas
<1>3. /\ DOMAIN cpi = 1 .. n
      /\ \A i \in 1 .. n :
           cpi[i] = [metas[i] EXCEPT !.isSigner = @ \/ metas[i].pubkey = "escrow"]
  BY <1>1 DEF CpiMetas
<1>4. \A i \in 1 .. n :
        cpi[i] = IF L[i].pubkey = "escrow" THEN Signer("escrow") ELSE L[i]
  <2> TAKE i \in 1 .. n
  <2>1. metas[i] = Meta(metas[i].pubkey) /\ metas[i].pubkey = L[i].pubkey
    BY <1>2, SignedOrNot
  <2>2. cpi[i] = IF metas[i].pubkey = "escrow" THEN Signer("escrow") ELSE metas[i]
    BY <1>3, <2>1, SignedFor
  <2> QED
    BY <1>1, <2>1, <2>2
<1>5. Len(cpi) = n
  <2>1. cpi = [i \in 1 .. n |-> cpi[i]]
    BY <1>3 DEF CpiMetas
  <2> DEFINE S == {cpi[i] : i \in 1 .. n}
  <2>2. \A i \in 1 .. n : cpi[i] \in S
    OBVIOUS
  <2> HIDE DEF cpi, S
  <2>3. cpi \in Seq(S)
    BY <2>1, <2>2
  <2> QED
    BY <2>3, <1>3
<1>6. Signable(metas)
  BY <1>1, <1>2, SignedOrNot DEF Signable
<1>7. \A i \in 1 .. n : metas[i].pubkey = L[i].pubkey
  BY <1>2, SignedOrNot
<1> QED
  BY <1>1, <1>4, <1>5, <1>6, <1>7

(* The Whirlpool takes what buildOrcaSwap built and the relay signed. *)
LEMMA OrcaAccepted ==
  ASSUME NEW mint \in Mints
  PROVE  SwapAccepted("orca", mint)
<1> DEFINE a == IF mint = "A" THEN "input" ELSE "destination"
           b == IF mint = "A" THEN "destination" ELSE "input"
           L == WhirlpoolSwap("escrow", a, "vaultA", b, "vaultB")
           M == EscrowUnsigned(L)
           C == CpiMetas(M)
<1>1. remainingAccounts("orca", mint) = M
  BY DEF remainingAccounts, OrcaAccounts
<1>2. /\ DOMAIN L = 1 .. 9
      /\ L[1] = Meta("tokenProgram") /\ L[2] = Signer("escrow") /\ L[3] = Meta("pool")
      /\ L[4] = Meta(a) /\ L[5] = Meta("vaultA") /\ L[6] = Meta(b) /\ L[7] = Meta("vaultB")
      /\ L[8] = Meta("tickArrays") /\ L[9] = Meta("oracle")
  BY DEF WhirlpoolSwap
<1> HIDE DEF L
<1>3. AreMetas(L, 9)
  BY <1>2, SignedOrNot DEF AreMetas
<1>4. \A i \in 1 .. 9 : L[i] = Signer(L[i].pubkey) => L[i].pubkey = "escrow"
  BY <1>2, SignedOrNot
<1>5. /\ DOMAIN M = 1 .. 9 /\ Len(C) = 9 /\ Signable(M)
      /\ \A i \in 1 .. 9 :
           /\ M[i].pubkey = L[i].pubkey
           /\ C[i] = IF L[i].pubkey = "escrow" THEN Signer("escrow") ELSE L[i]
  BY <1>3, <1>4, Relayed
<1> HIDE DEF M, C
<1>6. RequiredSwapAccounts \subseteq Keys(M)
  BY <1>2, <1>5, SignedOrNot DEF RequiredSwapAccounts, Keys
<1>7. WhirlpoolAccepts(C, mint)
  BY <1>2, <1>5, SignedOrNot, MintsOf DEF WhirlpoolAccepts, Trades, MintOf, Mints
<1> QED
  BY <1>1, <1>5, <1>6, <1>7 DEF SwapAccepted, C

(* The CPMM pool takes what buildRaydiumSwap built and the relay signed. *)
LEMMA RaydiumAccepted ==
  ASSUME NEW mint \in Mints
  PROVE  SwapAccepted("raydium", mint)
<1> DEFINE iv == IF mint = "A" THEN "vaultA" ELSE "vaultB"
           ov == IF mint = "A" THEN "vaultB" ELSE "vaultA"
           other == OtherMint(mint)
           L == makeSwapCpmmBaseIn("escrow", "input", "destination", iv, ov, mint, other)
           M == EscrowUnsigned(L)
           C == CpiMetas(M)
<1>1. remainingAccounts("raydium", mint) = M
  BY DEF remainingAccounts, RaydiumAccounts
<1>2. /\ DOMAIN L = 1 .. 13
      /\ L[1] = Signer("escrow") /\ L[2] = Meta("poolAuthority") /\ L[3] = Meta("config")
      /\ L[4] = Meta("pool") /\ L[5] = Meta("input") /\ L[6] = Meta("destination")
      /\ L[7] = Meta(iv) /\ L[8] = Meta(ov) /\ L[9] = Meta("tokenProgram")
      /\ L[10] = Meta("tokenProgram") /\ L[11] = Meta(mint) /\ L[12] = Meta(other)
      /\ L[13] = Meta("observation")
  BY DEF makeSwapCpmmBaseIn
<1>3. mint # "escrow" /\ other # "escrow" /\ other = OtherMint(mint)
  BY MintsOf DEF Mints
<1> HIDE DEF L, other
<1>4. AreMetas(L, 13)
  BY <1>2, SignedOrNot DEF AreMetas
<1>5. \A i \in 1 .. 13 : L[i] = Signer(L[i].pubkey) => L[i].pubkey = "escrow"
  BY <1>2, SignedOrNot
<1>6. /\ DOMAIN M = 1 .. 13 /\ Len(C) = 13 /\ Signable(M)
      /\ \A i \in 1 .. 13 :
           /\ M[i].pubkey = L[i].pubkey
           /\ C[i] = IF L[i].pubkey = "escrow" THEN Signer("escrow") ELSE L[i]
  BY <1>4, <1>5, Relayed
<1> HIDE DEF M, C
<1>7. RequiredSwapAccounts \subseteq Keys(M)
  BY <1>2, <1>6, SignedOrNot DEF RequiredSwapAccounts, Keys
<1>8. CpmmAccepts(C, mint)
  BY <1>2, <1>3, <1>6, SignedOrNot, MintsOf DEF CpmmAccepts, Trades, MintOf, Mints
<1> QED
  BY <1>1, <1>6, <1>7, <1>8 DEF SwapAccepted, C

(* The DLMM pool takes what buildMeteoraSwap built and the relay signed. *)
LEMMA MeteoraAccepted ==
  ASSUME NEW mint \in Mints
  PROVE  SwapAccepted("meteora", mint)
<1> DEFINE B == DlmmSwap("escrow", "escrowInputAta", "escrowOutputAta")
           replaced(pubkey) == CASE pubkey = "escrowInputAta" -> "input"
                                 [] pubkey = "escrowOutputAta" -> "destination"
                                 [] OTHER -> pubkey
           L == [i \in DOMAIN B |-> [B[i] EXCEPT !.pubkey = replaced(@)]]
           M == EscrowUnsigned(L)
           C == CpiMetas(M)
<1>1. remainingAccounts("meteora", mint) = M
  BY DEF remainingAccounts, MeteoraAccounts
<1>2. /\ DOMAIN B = 1 .. 11
      /\ B[1] = Meta("pool") /\ B[2] = Meta("vaultA") /\ B[3] = Meta("vaultB")
      /\ B[4] = Meta("escrowInputAta") /\ B[5] = Meta("escrowOutputAta")
      /\ B[6] = Meta("A") /\ B[7] = Meta("B") /\ B[8] = Meta("oracle")
      /\ B[9] = Signer("escrow") /\ B[10] = Meta("tokenProgram") /\ B[11] = Meta("binArrays")
  BY DEF DlmmSwap
<1> HIDE DEF B
<1>3. /\ DOMAIN L = 1 .. 11
      /\ \A i \in 1 .. 11 : L[i] = [B[i] EXCEPT !.pubkey = replaced(B[i].pubkey)]
  BY <1>2
<1> HIDE DEF L
<1>4. \A p : /\ p = "escrowInputAta" => replaced(p) = "input"
             /\ p = "escrowOutputAta" => replaced(p) = "destination"
             /\ p # "escrowInputAta" /\ p # "escrowOutputAta" => replaced(p) = p
  OBVIOUS
<1> HIDE DEF replaced
<1>11. \A i \in 1 .. 11 :
         /\ B[i] = Meta(B[i].pubkey) => L[i] = Meta(replaced(B[i].pubkey))
         /\ B[i] = Signer(B[i].pubkey) => L[i] = Signer(replaced(B[i].pubkey))
  <2> TAKE i \in 1 .. 11
  <2> DEFINE p == B[i].pubkey
  <2>1. L[i] = [B[i] EXCEPT !.pubkey = replaced(p)]
    BY <1>3
  <2>2. /\ [Meta(p) EXCEPT !.pubkey = replaced(p)] = Meta(replaced(p))
        /\ [Signer(p) EXCEPT !.pubkey = replaced(p)] = Signer(replaced(p))
    BY Renamed
  <2> HIDE DEF p
  <2>3. ASSUME B[i] = Meta(p) PROVE L[i] = Meta(replaced(p))
    BY <2>1, <2>2, <2>3
  <2>4. ASSUME B[i] = Signer(p) PROVE L[i] = Signer(replaced(p))
    BY <2>1, <2>2, <2>4
  <2> QED
    BY <2>3, <2>4 DEF p
<1>12. /\ \A i \in 1 .. 11 \ {9} : B[i] = Meta(B[i].pubkey)
       /\ B[9] = Signer(B[9].pubkey)
  BY <1>2, SignedOrNot
<1>13. \A i \in 1 .. 11 \ {9} : L[i] = Meta(replaced(B[i].pubkey))
  BY <1>11, <1>12
<1>14. L[9] = Signer(replaced(B[9].pubkey))
  BY <1>11, <1>12
<1>5. /\ L[1] = Meta("pool") /\ L[2] = Meta("vaultA") /\ L[3] = Meta("vaultB")
      /\ L[4] = Meta("input") /\ L[5] = Meta("destination")
      /\ L[6] = Meta("A") /\ L[7] = Meta("B") /\ L[8] = Meta("oracle")
      /\ L[9] = Signer("escrow") /\ L[10] = Meta("tokenProgram") /\ L[11] = Meta("binArrays")
  BY <1>2, <1>4, <1>13, <1>14, SignedOrNot
<1>6. AreMetas(L, 11)
  BY <1>3, <1>5, SignedOrNot DEF AreMetas
<1>7. \A i \in 1 .. 11 : L[i] = Signer(L[i].pubkey) => L[i].pubkey = "escrow"
  BY <1>5, SignedOrNot
<1>8. /\ DOMAIN M = 1 .. 11 /\ Len(C) = 11 /\ Signable(M)
      /\ \A i \in 1 .. 11 :
           /\ M[i].pubkey = L[i].pubkey
           /\ C[i] = IF L[i].pubkey = "escrow" THEN Signer("escrow") ELSE L[i]
  BY <1>6, <1>7, Relayed
<1> HIDE DEF M, C
<1>9. RequiredSwapAccounts \subseteq Keys(M)
  BY <1>5, <1>8, SignedOrNot DEF RequiredSwapAccounts, Keys
<1>10. DlmmAccepts(C, mint)
  BY <1>5, <1>8, SignedOrNot, MintsOf DEF DlmmAccepts, Trades, MintOf, Mints
<1> QED
  BY <1>1, <1>8, <1>9, <1>10 DEF SwapAccepted, C

-----------------------------------------------------------------------------
(* The scripts, step by step. *)

(* Where the escrow is opened: everything before it sets up. *)
InitAt(p) == IF p \in {"raydiumDemo", "meteoraDemo"} THEN 5 ELSE 3

(* The input tokens the setup has left in the account before step i. *)
Stock(p, i) ==
  CASE p = "mockDemo" -> IF i = 1 THEN 0 ELSE 10
    [] p = "orcaDemo" -> IF i = 1 THEN 0 ELSE 1
    [] p = "raydiumDemo" -> IF i = 2 THEN 100 ELSE IF i <= 3 THEN 0 ELSE 1
    [] p = "meteoraDemo" -> IF i = 1 THEN 0 ELSE IF i <= 3 THEN 200 ELSE 100
    [] p = "orcaLive" -> IF i <= 2 THEN 0 ELSE 1

(* A setup step brings and takes that many input tokens. *)
SetsUp(step, brings, takes) ==
  step.do = "setup" /\ step.brings = brings /\ step.takes = takes

(* A funding step brings tokens and takes none. *)
LEMMA SetupsSetUp == \A n : SetsUp(Fund(n), n, 0)
BY DEF SetsUp, Fund, Setup

(* The three steps around the swap follow the setup. *)
LEMMA MockSteps ==
  /\ Len(MockDemo) = 5
  /\ SetsUp(MockDemo[1], 10, 0) /\ SetsUp(MockDemo[2], 0, 0)
  /\ MockDemo[3] = InitializeEscrow /\ MockDemo[4] = HedgedExecuteSwap
  /\ MockDemo[5] = ReadBalance
BY SetupsSetUp DEF MockDemo, SwapIt

(* The same for the Orca demo. *)
LEMMA OrcaSteps ==
  /\ Len(OrcaDemo) = 5
  /\ SetsUp(OrcaDemo[1], 1, 0) /\ OrcaDemo[2] = Route
  /\ OrcaDemo[3] = InitializeEscrow /\ OrcaDemo[4] = HedgedExecuteSwap
  /\ OrcaDemo[5] = ReadBalance
BY SetupsSetUp DEF OrcaDemo, SwapIt

(* The same for the Raydium demo. *)
LEMMA RaydiumSteps ==
  /\ Len(RaydiumDemo) = 7
  /\ SetsUp(RaydiumDemo[1], 100, 0) /\ SetsUp(RaydiumDemo[2], 0, 100)
  /\ SetsUp(RaydiumDemo[3], 1, 0) /\ RaydiumDemo[4] = Route
  /\ RaydiumDemo[5] = InitializeEscrow /\ RaydiumDemo[6] = HedgedExecuteSwap
  /\ RaydiumDemo[7] = ReadBalance
<1>1. /\ Len(RaydiumDemo) = 7
      /\ RaydiumDemo[1] = Fund(100)
      /\ RaydiumDemo[2] = Setup(0, 100, TRUE)
      /\ RaydiumDemo[3] = Fund(1)
      /\ RaydiumDemo[4] = Route
      /\ RaydiumDemo[5] = InitializeEscrow
      /\ RaydiumDemo[6] = HedgedExecuteSwap
      /\ RaydiumDemo[7] = ReadBalance
  BY DEF RaydiumDemo, SwapIt
<1>2. SetsUp(RaydiumDemo[2], 0, 100)
  <2>1. SetsUp(Setup(0, 100, TRUE), 0, 100)
    BY DEF SetsUp, Setup
  <2> QED
    BY <1>1, <2>1, Zenon
<1> QED
  BY <1>1, <1>2, SetupsSetUp

(* The same for the Meteora demo. *)
LEMMA MeteoraSteps ==
  /\ Len(MeteoraDemo) = 7
  /\ SetsUp(MeteoraDemo[1], 200, 0) /\ SetsUp(MeteoraDemo[2], 0, 0)
  /\ SetsUp(MeteoraDemo[3], 0, 100) /\ MeteoraDemo[4] = Route
  /\ MeteoraDemo[5] = InitializeEscrow /\ MeteoraDemo[6] = HedgedExecuteSwap
  /\ MeteoraDemo[7] = ReadBalance
<1>1. /\ Len(MeteoraDemo) = 7
      /\ MeteoraDemo[1] = Fund(200)
      /\ MeteoraDemo[2] = Setup(0, 0, TRUE)
      /\ MeteoraDemo[3] = Setup(0, 100, FALSE)
      /\ MeteoraDemo[4] = Route
      /\ MeteoraDemo[5] = InitializeEscrow
      /\ MeteoraDemo[6] = HedgedExecuteSwap
      /\ MeteoraDemo[7] = ReadBalance
  BY DEF MeteoraDemo, SwapIt
<1>2. SetsUp(MeteoraDemo[2], 0, 0)
  <2>1. SetsUp(Setup(0, 0, TRUE), 0, 0)
    BY DEF SetsUp, Setup
  <2> QED
    BY <1>1, <2>1, Zenon
<1>3. SetsUp(MeteoraDemo[3], 0, 100)
  <2>1. SetsUp(Setup(0, 100, FALSE), 0, 100)
    BY DEF SetsUp, Setup
  <2> QED
    BY <1>1, <2>1, Zenon
<1> QED
  BY <1>1, <1>2, <1>3, SetupsSetUp

(* The generator opens its escrow and goes on. *)
LEMMA LiveSteps ==
  /\ Len(OrcaLive) = 3
  /\ SetsUp(OrcaLive[1], 0, 0) /\ SetsUp(OrcaLive[2], 1, 0) /\ OrcaLive[3] = InitializeEscrow
BY SetupsSetUp DEF OrcaLive

(* What kind a step is, and what it changes, goes by its place. *)
StepFits(p, i) ==
  LET step == StepsOf(p)[i]
  IN /\ step.do \in {"setup", "route", "initialize", "execute", "read"}
     /\ step.do \in {"setup", "route"} <=> i < InitAt(p)
     /\ step.do = "initialize" <=> i = InitAt(p)
     /\ step.do = "execute" <=> i = InitAt(p) + 1
     /\ step.do = "setup" => /\ step.brings \in Nat /\ step.takes \in Nat
                             /\ step.brings = 0 \/ step.takes = 0
                             /\ Stock(p, i + 1) = Stock(p, i) + step.brings - step.takes
     /\ step.do = "route" => Stock(p, i + 1) = Stock(p, i)

(* The other kinds of step. *)
LEMMA StepKinds ==
  /\ Route.do = "route" /\ InitializeEscrow.do = "initialize"
  /\ HedgedExecuteSwap.do = "execute" /\ ReadBalance.do = "read"
BY DEF Route, InitializeEscrow, HedgedExecuteSwap, ReadBalance

(* All five scripts fit. *)
LEMMA ScriptsFit ==
  ASSUME NEW p \in Programs
  PROVE  /\ Len(StepsOf(p)) = IF p = "orcaLive" THEN InitAt(p) ELSE InitAt(p) + 2
         /\ InitAt(p) \in Nat /\ InitAt(p) >= 1
         /\ \A i \in 1 .. Len(StepsOf(p)) : StepFits(p, i)
         /\ \A i \in 1 .. InitAt(p) : Stock(p, i) \in Nat
         /\ Stock(p, 1) = 0 /\ Stock(p, InitAt(p)) >= 1
<1>1. CASE p = "mockDemo"
  <2>1. StepsOf(p) = MockDemo /\ InitAt(p) = 3
    BY <1>1 DEF StepsOf, InitAt
  <2>2. Stock(p, 1) = 0 /\ Stock(p, 2) = 10 /\ Stock(p, 3) = 10
    BY <1>1 DEF Stock
  <2>3. StepFits(p, 1)
    BY <2>1, <2>2, MockSteps, StepKinds DEF StepFits, SetsUp
  <2>4. StepFits(p, 2)
    BY <2>1, <2>2, MockSteps, StepKinds DEF StepFits, SetsUp
  <2>5. StepFits(p, 3)
    BY <2>1, <2>2, MockSteps, StepKinds DEF StepFits, SetsUp
  <2>6. StepFits(p, 4)
    BY <2>1, <2>2, MockSteps, StepKinds DEF StepFits, SetsUp
  <2>7. StepFits(p, 5)
    BY <2>1, <2>2, MockSteps, StepKinds DEF StepFits, SetsUp
  <2>8. \A i \in 1 .. 5 : StepFits(p, i)
    BY <2>3, <2>4, <2>5, <2>6, <2>7
  <2>9. \A i \in 1 .. 3 : Stock(p, i) \in Nat
    BY <2>2
  <2>10. Len(StepsOf(p)) = IF p = "orcaLive" THEN InitAt(p) ELSE InitAt(p) + 2
    <3>1. p # "orcaLive"
      BY <1>1
    <3>2. Len(StepsOf(p)) = InitAt(p) + 2
      BY <2>1, MockSteps
    <3> QED
      BY <3>1, <3>2
  <2>11. \A i \in 1 .. Len(StepsOf(p)) : StepFits(p, i)
    BY <2>1, <2>8, MockSteps
  <2>12. InitAt(p) \in Nat /\ InitAt(p) >= 1 /\ Stock(p, 1) = 0 /\ Stock(p, InitAt(p)) >= 1
    BY <2>1, <2>2
  <2> QED
    BY <2>1, <2>9, <2>10, <2>11, <2>12
<1>2. CASE p = "orcaDemo"
  <2>1. StepsOf(p) = OrcaDemo /\ InitAt(p) = 3
    BY <1>2 DEF StepsOf, InitAt
  <2>2. Stock(p, 1) = 0 /\ Stock(p, 2) = 1 /\ Stock(p, 3) = 1
    BY <1>2 DEF Stock
  <2>3. StepFits(p, 1)
    BY <2>1, <2>2, OrcaSteps, StepKinds DEF StepFits, SetsUp
  <2>4. StepFits(p, 2)
    BY <2>1, <2>2, OrcaSteps, StepKinds DEF StepFits, SetsUp
  <2>5. StepFits(p, 3)
    BY <2>1, <2>2, OrcaSteps, StepKinds DEF StepFits, SetsUp
  <2>6. StepFits(p, 4)
    BY <2>1, <2>2, OrcaSteps, StepKinds DEF StepFits, SetsUp
  <2>7. StepFits(p, 5)
    BY <2>1, <2>2, OrcaSteps, StepKinds DEF StepFits, SetsUp
  <2>8. \A i \in 1 .. 5 : StepFits(p, i)
    BY <2>3, <2>4, <2>5, <2>6, <2>7
  <2>9. \A i \in 1 .. 3 : Stock(p, i) \in Nat
    BY <2>2
  <2>10. Len(StepsOf(p)) = IF p = "orcaLive" THEN InitAt(p) ELSE InitAt(p) + 2
    <3>1. p # "orcaLive"
      BY <1>2
    <3>2. Len(StepsOf(p)) = InitAt(p) + 2
      BY <2>1, OrcaSteps
    <3> QED
      BY <3>1, <3>2
  <2>11. \A i \in 1 .. Len(StepsOf(p)) : StepFits(p, i)
    BY <2>1, <2>8, OrcaSteps
  <2>12. InitAt(p) \in Nat /\ InitAt(p) >= 1 /\ Stock(p, 1) = 0 /\ Stock(p, InitAt(p)) >= 1
    BY <2>1, <2>2
  <2> QED
    BY <2>1, <2>9, <2>10, <2>11, <2>12
<1>3. CASE p = "raydiumDemo"
  <2>1. StepsOf(p) = RaydiumDemo /\ InitAt(p) = 5
    BY <1>3 DEF StepsOf, InitAt
  <2>2. Stock(p, 1) = 0 /\ Stock(p, 2) = 100 /\ Stock(p, 3) = 0 /\ Stock(p, 4) = 1 /\ Stock(p, 5) = 1
    BY <1>3 DEF Stock
  <2>3. StepFits(p, 1)
    BY <2>1, <2>2, RaydiumSteps, StepKinds DEF StepFits, SetsUp
  <2>4. StepFits(p, 2)
    BY <2>1, <2>2, RaydiumSteps, StepKinds DEF StepFits, SetsUp
  <2>5. StepFits(p, 3)
    BY <2>1, <2>2, RaydiumSteps, StepKinds DEF StepFits, SetsUp
  <2>6. StepFits(p, 4)
    BY <2>1, <2>2, RaydiumSteps, StepKinds DEF StepFits, SetsUp
  <2>7. StepFits(p, 5)
    BY <2>1, <2>2, RaydiumSteps, StepKinds DEF StepFits, SetsUp
  <2>8. StepFits(p, 6)
    BY <2>1, <2>2, RaydiumSteps, StepKinds DEF StepFits, SetsUp
  <2>9. StepFits(p, 7)
    BY <2>1, <2>2, RaydiumSteps, StepKinds DEF StepFits, SetsUp
  <2>10. \A i \in 1 .. 7 : StepFits(p, i)
    BY <2>3, <2>4, <2>5, <2>6, <2>7, <2>8, <2>9
  <2>11. \A i \in 1 .. 5 : Stock(p, i) \in Nat
    BY <2>2
  <2>12. Len(StepsOf(p)) = IF p = "orcaLive" THEN InitAt(p) ELSE InitAt(p) + 2
    <3>1. p # "orcaLive"
      BY <1>3
    <3>2. Len(StepsOf(p)) = InitAt(p) + 2
      BY <2>1, RaydiumSteps
    <3> QED
      BY <3>1, <3>2
  <2>13. \A i \in 1 .. Len(StepsOf(p)) : StepFits(p, i)
    BY <2>1, <2>10, RaydiumSteps
  <2>14. InitAt(p) \in Nat /\ InitAt(p) >= 1 /\ Stock(p, 1) = 0 /\ Stock(p, InitAt(p)) >= 1
    BY <2>1, <2>2
  <2> QED
    BY <2>1, <2>11, <2>12, <2>13, <2>14
<1>4. CASE p = "meteoraDemo"
  <2>1. StepsOf(p) = MeteoraDemo /\ InitAt(p) = 5
    BY <1>4 DEF StepsOf, InitAt
  <2>2. Stock(p, 1) = 0 /\ Stock(p, 2) = 200 /\ Stock(p, 3) = 200 /\ Stock(p, 4) = 100 /\ Stock(p, 5) = 100
    BY <1>4 DEF Stock
  <2>3. StepFits(p, 1)
    BY <2>1, <2>2, MeteoraSteps, StepKinds DEF StepFits, SetsUp
  <2>4. StepFits(p, 2)
    BY <2>1, <2>2, MeteoraSteps, StepKinds DEF StepFits, SetsUp
  <2>5. StepFits(p, 3)
    BY <2>1, <2>2, MeteoraSteps, StepKinds DEF StepFits, SetsUp
  <2>6. StepFits(p, 4)
    BY <2>1, <2>2, MeteoraSteps, StepKinds DEF StepFits, SetsUp
  <2>7. StepFits(p, 5)
    BY <2>1, <2>2, MeteoraSteps, StepKinds DEF StepFits, SetsUp
  <2>8. StepFits(p, 6)
    BY <2>1, <2>2, MeteoraSteps, StepKinds DEF StepFits, SetsUp
  <2>9. StepFits(p, 7)
    BY <2>1, <2>2, MeteoraSteps, StepKinds DEF StepFits, SetsUp
  <2>10. \A i \in 1 .. 7 : StepFits(p, i)
    BY <2>3, <2>4, <2>5, <2>6, <2>7, <2>8, <2>9
  <2>11. \A i \in 1 .. 5 : Stock(p, i) \in Nat
    BY <2>2
  <2>12. Len(StepsOf(p)) = IF p = "orcaLive" THEN InitAt(p) ELSE InitAt(p) + 2
    <3>1. p # "orcaLive"
      BY <1>4
    <3>2. Len(StepsOf(p)) = InitAt(p) + 2
      BY <2>1, MeteoraSteps
    <3> QED
      BY <3>1, <3>2
  <2>13. \A i \in 1 .. Len(StepsOf(p)) : StepFits(p, i)
    BY <2>1, <2>10, MeteoraSteps
  <2>14. InitAt(p) \in Nat /\ InitAt(p) >= 1 /\ Stock(p, 1) = 0 /\ Stock(p, InitAt(p)) >= 1
    BY <2>1, <2>2
  <2> QED
    BY <2>1, <2>11, <2>12, <2>13, <2>14
<1>5. CASE p = "orcaLive"
  <2>1. StepsOf(p) = OrcaLive /\ InitAt(p) = 3
    BY <1>5 DEF StepsOf, InitAt
  <2>2. Stock(p, 1) = 0 /\ Stock(p, 2) = 0 /\ Stock(p, 3) = 1
    BY <1>5 DEF Stock
  <2>3. StepFits(p, 1)
    BY <2>1, <2>2, LiveSteps, StepKinds DEF StepFits, SetsUp
  <2>4. StepFits(p, 2)
    BY <2>1, <2>2, LiveSteps, StepKinds DEF StepFits, SetsUp
  <2>5. StepFits(p, 3)
    BY <2>1, <2>2, LiveSteps, StepKinds DEF StepFits, SetsUp
  <2>6. \A i \in 1 .. 3 : StepFits(p, i)
    BY <2>3, <2>4, <2>5
  <2>7. \A i \in 1 .. 3 : Stock(p, i) \in Nat
    BY <2>2
  <2>8. Len(StepsOf(p)) = IF p = "orcaLive" THEN InitAt(p) ELSE InitAt(p) + 2
    BY <1>5, <2>1, LiveSteps
  <2>9. \A i \in 1 .. Len(StepsOf(p)) : StepFits(p, i)
    BY <2>1, <2>6, LiveSteps
  <2>10. InitAt(p) \in Nat /\ InitAt(p) >= 1 /\ Stock(p, 1) = 0 /\ Stock(p, InitAt(p)) >= 1
    BY <2>1, <2>2
  <2> QED
    BY <2>1, <2>7, <2>8, <2>9, <2>10
<1> QED
  BY <1>1, <1>2, <1>3, <1>4, <1>5, DemoAssumption

-----------------------------------------------------------------------------
(* The tip a demo attaches. *)

(* The tip of the first slot is the whole share, or the floor. *)
LEMMA FirstSlotTip ==
  ASSUME NEW b \in Nat, Payable(b)
  PROVE  RequiredTip(b, TTL_SLOTS + 1) =
           IF KeeperShare(b) <= MIN_JITO_TIP_LAMPORTS THEN MIN_JITO_TIP_LAMPORTS ELSE KeeperShare(b)
<1> DEFINE M == MIN_JITO_TIP_LAMPORTS
           T == TIP_DECAY_SLOTS
           k == KeeperShare(b)
<1>1. M \in Nat /\ T \in Nat \ {0} /\ TTL_SLOTS \in Nat /\ k \in Nat
  BY CurveParameters, KeeperShareBounds
<1>2. IsRescue(TTL_SLOTS + 1) /\ TTL_SLOTS + 1 \in Nat
  BY <1>1 DEF IsRescue
<1>3. RequiredTip(b, TTL_SLOTS + 1) =
        IF k <= M \/ 0 >= T THEN M ELSE M + saturating_mul(k - M, T - 0) \div T
  <2> DEFINE el == TTL_SLOTS + 1
  <2>1. RequiredTip(b, el) =
          IF k <= M \/ el - TTL_SLOTS - 1 >= T
          THEN M ELSE M + saturating_mul(k - M, T - (el - TTL_SLOTS - 1)) \div T
    BY <1>2, TipInWindow
  <2>2. el - TTL_SLOTS - 1 = 0
    <3>1. TTL_SLOTS \in Int
      BY <1>1
    <3> QED
      BY <3>1, SMT
  <2> HIDE DEF el
  <2>3. RequiredTip(b, el) =
          IF k <= M \/ 0 >= T THEN M ELSE M + saturating_mul(k - M, T - 0) \div T
    BY <2>1, <2>2, Zenon
  <2> QED
    BY <2>3 DEF el
<1>4. CASE k > M
  <2>1. saturating_mul(k - M, T) = (k - M) * T
    BY <1>1, <1>4, NoSaturation
  <2>2. ((k - M) * T) \div T = k - M
    BY <1>1, <1>4, DivideOfMultiple
  <2> HIDE DEF k
  <2>3. T - 0 = T /\ ~(0 >= T) /\ ~(k <= M)
    BY <1>1, <1>4
  <2>4. RequiredTip(b, TTL_SLOTS + 1) = M + (k - M)
    BY <1>3, <2>1, <2>2, <2>3
  <2> QED
    BY <1>1, <1>4, <2>4 DEF k
<1>5. CASE k <= M
  BY <1>3, <1>5
<1> QED
  BY <1>1, <1>4, <1>5

(* No slot asks for more than the fixed tip, of any buffer that is ordered. *)
LEMMA HedgeIsEnough ==
  ASSUME NEW e \in Escrows, NEW o \in Orders[e], NEW el \in Nat
  PROVE  RequiredTip(o.buffer, el) <= HEDGE_TIP
<1> DEFINE b == o.buffer
<1>1. b \in Nat /\ b <= MaxBuffer /\ MaxBuffer \in Nat
  BY ClientAssumption, ClientSupplyAssumption
<1>2. Payable(b)
  BY <1>1, ClientSupplyAssumption, PayableUpTo
<1>3. HEDGE_TIP \in Nat /\ MIN_JITO_TIP_LAMPORTS <= HEDGE_TIP /\ KeeperShare(b) <= HEDGE_TIP
  BY DemoAssumption, HedgeAssumption
<1> HIDE DEF b
<1>4. CASE IsRescue(el)
  <2>1. /\ TTL_SLOTS + 1 \in Nat /\ IsRescue(TTL_SLOTS + 1) /\ TTL_SLOTS + 1 <= el
    BY <1>4, CurveParameters DEF IsRescue
  <2>2. RequiredTip(b, el) <= RequiredTip(b, TTL_SLOTS + 1)
    BY <1>1, <1>2, <2>1, TipFallsWithAge
  <2>3. RequiredTip(b, TTL_SLOTS + 1) <= HEDGE_TIP
    BY <1>1, <1>2, <1>3, FirstSlotTip
  <2>4. RequiredTip(b, el) \in Nat /\ RequiredTip(b, TTL_SLOTS + 1) \in Nat
    BY <1>1, <2>1, RequiredTipNat
  <2> QED
    BY <1>3, <2>2, <2>3, <2>4 DEF b
<1>5. CASE ~IsRescue(el)
  <2>1. RequiredTip(b, el) = 0
    BY <1>5 DEF RequiredTip
  <2> QED
    BY <1>3, <2>1 DEF b
<1> QED
  BY <1>4, <1>5

-----------------------------------------------------------------------------
(* The invariant. *)
Running == script.standing = "running"

(* The setup is not done yet, or the escrow is open and the swap to come. *)
Preparing == Running /\ script.pc <= InitAt(script.program)

Swapping == Running /\ script.pc > InitAt(script.program)

PastSwap ==
  /\ script.program # "orcaLive"
  /\ script.standing = "finished" \/ (Running /\ script.pc > InitAt(script.program) + 1)

Won(e) == fate[e].by = Me /\ fate[e].how \in {"ordinary", "rescue"}

(* Types, and that orders are for the route the script takes. *)
TypeOK ==
  /\ slot \in Nat
  /\ account \in [Escrows -> Account]
  /\ fate \in [Escrows -> Fate]
  /\ network \subseteq Tx
  /\ call \in [Clients -> Call]
  /\ script \in [program : Programs, pc : Nat \ {0}, escrow : Escrows,
                 standing : {"running", "dead", "finished"}, unused : SUBSET Escrows]
  /\ balance \in [Accounts -> Nat]
  /\ delegate \in [Accounts -> Escrows \cup {NoDelegate}]
  /\ \A e \in Escrows : order[e] \in Orders[e] /\ order[e].route = RouteOf(script.program)

(* Whatever is on its way carries the fixed tip. *)
Hedged ==
  /\ \A tx \in network : tx.tip = HEDGE_TIP
  /\ ~Idle(Me) => call[Me].tip = HEDGE_TIP

(* A call belongs to the swap step the script is at, and a transaction        *)
(* somebody waits for is the call's own.                                      *)
Called ==
  /\ call[Me].step \notin {"readEscrow", "readSlot"}
  /\ ~Idle(Me) => At("execute") /\ call[Me].escrow = script.escrow
  /\ \A tx \in network : tx.awaited => call[Me].step = "confirm" /\ tx = TxOf(Me, TRUE)
  /\ call[Me].step \in {"landed", "executed"} => Won(script.escrow)

(* What was won is over, and a script past its swap has won. *)
WonIsOver ==
  /\ \A e \in Escrows : Won(e) => account[e].status = "closed"
  /\ PastSwap => Won(script.escrow)

(* Escrows still to be opened are not there yet. *)
FreshAhead ==
  /\ \A e \in script.unused : account[e].status = "fresh"
  /\ script.escrow \notin script.unused
  /\ Preparing => account[script.escrow].status = "fresh"

(* Token accounts: who may spend them, and that the live delegate and the     *)
(* setup in progress each find what they need.                                *)
OwnAccount == \A a \in Accounts : delegate[a] # NoDelegate => InputOf(delegate[a]) = a

Allowed ==
  \A e \in Escrows :
    Pending(e) /\ (script.program = "orcaDemo" => Swapping /\ e = script.escrow)
      => delegate[InputOf(e)] = e

ForDelegate(a) == IF delegate[a] # NoDelegate /\ Pending(delegate[a]) THEN 1 ELSE 0

ForSetup(a) ==
  IF Preparing /\ a = InputOf(script.escrow) THEN Stock(script.program, script.pc) ELSE 0

Stocked == \A a \in Accounts : balance[a] >= ForDelegate(a) + ForSetup(a)

Backed == OwnAccount /\ Allowed /\ Stocked

Inv == TypeOK /\ Hedged /\ Called /\ WonIsOver /\ FreshAhead /\ Backed

-----------------------------------------------------------------------------
(* Facts the steps share. *)

(* There is one client. *)
LEMMA OnlyMe == Me \in Clients /\ Clients = {Me}
<1>1. PICK c \in Clients : Clients = {c}
  BY DemoAssumption
<1>2. Me \in Clients
  BY <1>1 DEF Me
<1> QED
  BY <1>1, <1>2

(* Input accounts, by who uses them. *)
LEMMA InputAccounts ==
  ASSUME NEW e \in Escrows
  PROVE  /\ InputOf(e) \in Accounts
         /\ script.program # "orcaDemo" => InputOf(e) = e
         /\ script.program = "orcaDemo" => InputOf(e) = WsolAta
BY DEF InputOf, InputAccount, Accounts

(* Where a script is when it takes a step of a kind. *)
LEMMA WhereItIs ==
  ASSUME TypeOK, NEW what, At(what)
  PROVE  /\ Running /\ script.pc \in 1 .. Len(Steps) /\ InitAt(script.program) \in Nat
         /\ StepFits(script.program, script.pc) /\ Steps[script.pc].do = what
         /\ what \in {"setup", "route"} <=> script.pc < InitAt(script.program)
         /\ what = "initialize" <=> script.pc = InitAt(script.program)
         /\ what = "execute" <=> script.pc = InitAt(script.program) + 1
         /\ what = "read" => script.pc = InitAt(script.program) + 2
         /\ what \in {"execute", "read"} => script.program # "orcaLive"
<1> DEFINE p == script.program
           i == script.pc
<1>1. p \in Programs /\ i \in Nat \ {0}
  BY DEF TypeOK
<1>2. Running /\ i <= Len(StepsOf(p)) /\ StepsOf(p)[i].do = what
  BY DEF At, Running, Steps
<1>3. /\ Len(StepsOf(p)) = IF p = "orcaLive" THEN InitAt(p) ELSE InitAt(p) + 2
      /\ InitAt(p) \in Nat /\ InitAt(p) >= 1
      /\ \A j \in 1 .. Len(StepsOf(p)) : StepFits(p, j)
  BY <1>1, ScriptsFit
<1>4. i \in 1 .. Len(StepsOf(p)) /\ StepFits(p, i)
  BY <1>1, <1>2, <1>3
<1>5. p = "orcaLive" => i <= InitAt(p)
  BY <1>2, <1>3
<1> QED
  BY <1>1, <1>2, <1>3, <1>4, <1>5 DEF StepFits, Steps

(* What a setup still needs is a number of tokens, none at its start. *)
LEMMA SetupNeeds ==
  ASSUME TypeOK, NEW a
  PROVE  /\ ForDelegate(a) \in {0, 1} /\ ForSetup(a) \in Nat
         /\ script.pc = 1 => ForSetup(a) = 0
<1>1. /\ script.program \in Programs /\ script.pc \in Nat \ {0}
  BY DEF TypeOK
<1>2. /\ Stock(script.program, 1) = 0 /\ InitAt(script.program) \in Nat
      /\ \A i \in 1 .. InitAt(script.program) : Stock(script.program, i) \in Nat
  BY <1>1, ScriptsFit
<1>3. Preparing => script.pc \in 1 .. InitAt(script.program)
  BY <1>1, <1>2 DEF Preparing
<1> QED
  BY <1>2, <1>3 DEF ForDelegate, ForSetup

(* A call that is not there leaves the client free; one that is there holds   *)
(* the script at its swap.                                                    *)
LEMMA IdleElsewhere ==
  ASSUME TypeOK, Called, ~At("execute")
  PROVE  Idle(Me) /\ \A tx \in network : ~tx.awaited
BY DEF Called, Idle

-----------------------------------------------------------------------------
(* Steps that leave the script alone. *)

(* What they may do to the escrows: leave one there or not, or close it. *)
ChainMoves ==
  /\ slot' \in Nat /\ account' \in [Escrows -> Account] /\ fate' \in [Escrows -> Fate]
  /\ UNCHANGED <<script, order>>
  /\ \A e \in Escrows :
       \/ account'[e].status = account[e].status /\ fate'[e] = fate[e]
       \/ Pending(e) /\ account'[e].status = "closed"

(* What was won stays won, and over. *)
LEMMA ChainKeepsWon ==
  ASSUME TypeOK, WonIsOver, ChainMoves
  PROVE  /\ WonIsOver'
         /\ \A e \in Escrows : Won(e) => Won(e)'
<1>1. \A e \in Escrows :
        Won(e) => account'[e].status = account[e].status /\ fate'[e] = fate[e]
  BY DEF WonIsOver, ChainMoves, Pending
<1>2. \A e \in Escrows : Won(e) => Won(e)'
  BY <1>1 DEF Won
<1>3. ASSUME NEW e \in Escrows, Won(e)'
      PROVE  account'[e].status = "closed"
  BY <1>3 DEF WonIsOver, ChainMoves, Won
<1>4. PastSwap' => Won(script.escrow)'
  <2>1. PastSwap' = PastSwap
    BY DEF PastSwap, Running, ChainMoves
  <2>2. script'.escrow = script.escrow /\ script.escrow \in Escrows
    BY DEF ChainMoves, TypeOK
  <2> QED
    BY <1>2, <2>1, <2>2 DEF WonIsOver, Won, ChainMoves
<1> QED
  BY <1>2, <1>3, <1>4 DEF WonIsOver

(* No escrow is opened, and none that is to come is touched. *)
LEMMA ChainKeepsFresh ==
  ASSUME TypeOK, FreshAhead, ChainMoves
  PROVE  FreshAhead'
BY DEF FreshAhead, ChainMoves, TypeOK, Pending, Preparing, Running

(* Balances and allowances nobody touches stay enough as escrows close. *)
LEMMA ChainKeepsBacked ==
  ASSUME TypeOK, Backed, ChainMoves, UNCHANGED <<balance, delegate>>
  PROVE  Backed'
<1>1. \A e \in Escrows : InputOf(e)' = InputOf(e)
  BY DEF InputOf, ChainMoves
<1>2. \A e \in Escrows : Pending(e)' => Pending(e)
  BY DEF ChainMoves, Pending
<1>3. OwnAccount'
  BY <1>1 DEF Backed, OwnAccount, TypeOK
<1>4. Allowed'
  BY <1>1, <1>2 DEF Backed, Allowed, Swapping, Running, ChainMoves
<1>5. ASSUME NEW a \in Accounts
      PROVE  balance'[a] >= ForDelegate(a)' + ForSetup(a)'
  <2>1. ForSetup(a)' = ForSetup(a)
    BY DEF ForSetup, Preparing, Running, InputOf, ChainMoves
  <2>2. ForDelegate(a)' \in {0, 1} /\ ForDelegate(a)' <= ForDelegate(a)
    BY <1>2 DEF ForDelegate, TypeOK
  <2>3. balance'[a] = balance[a] /\ balance[a] \in Nat /\ balance[a] >= ForDelegate(a) + ForSetup(a)
    BY DEF Backed, Stocked, TypeOK
  <2>4. ForDelegate(a) \in {0, 1} /\ ForSetup(a) \in Nat
    BY SetupNeeds
  <2> QED
    BY <2>1, <2>2, <2>3, <2>4
<1> QED
  BY <1>3, <1>4, <1>5 DEF Backed, Stocked

(* A swap takes one swap's tokens and the allowance of the escrow it closes. *)
LEMMA SpendingKeepsBacked ==
  ASSUME TypeOK, Backed, ChainMoves, NEW e \in Escrows, Pending(e), ~Pending(e)',
         CanSpend(e), Spent(e)
  PROVE  Backed' /\ balance' \in [Accounts -> Nat]
         /\ delegate' \in [Accounts -> Escrows \cup {NoDelegate}]
<1> DEFINE b == InputOf(e)
<1>1. /\ \A x \in Escrows : InputOf(x)' = InputOf(x)
      /\ \A x \in Escrows : InputOf(x) \in Accounts
      /\ b \in Accounts
  BY InputAccounts DEF InputOf, ChainMoves
<1>2. /\ delegate[b] = e /\ balance[b] >= 1 /\ e # NoDelegate
      /\ balance' = [balance EXCEPT ![b] = @ - 1]
      /\ delegate' = [delegate EXCEPT ![b] = NoDelegate]
  BY DemoAssumption DEF CanSpend, Spent
<1>3. /\ balance \in [Accounts -> Nat] /\ delegate \in [Accounts -> Escrows \cup {NoDelegate}]
  BY DEF TypeOK
<1>4. \A x \in Escrows : Pending(x)' => Pending(x) /\ x # e
  BY DEF ChainMoves, Pending
<1> HIDE DEF b
<1>5. /\ balance' \in [Accounts -> Nat]
      /\ delegate' \in [Accounts -> Escrows \cup {NoDelegate}]
      /\ balance'[b] = balance[b] - 1 /\ delegate'[b] = NoDelegate
      /\ \A a \in Accounts \ {b} : balance'[a] = balance[a] /\ delegate'[a] = delegate[a]
  BY <1>1, <1>2, <1>3
<1>6. OwnAccount'
  BY <1>1, <1>3, <1>5 DEF Backed, OwnAccount
<1>7. Allowed'
  <2>1. ASSUME NEW x \in Escrows, Pending(x)',
               script'.program = "orcaDemo" => Swapping' /\ x = script'.escrow
        PROVE  delegate'[InputOf(x)] = x
    <3>1. Pending(x) /\ x # e /\ delegate[InputOf(x)] = x
      BY <1>4, <2>1 DEF Backed, Allowed, Swapping, Running, ChainMoves
    <3>2. InputOf(x) # b
      BY <1>2, <3>1
    <3> QED
      BY <1>1, <1>5, <3>1, <3>2
  <2> QED
    BY <1>1, <2>1 DEF Allowed
<1>8. ASSUME NEW a \in Accounts
      PROVE  balance'[a] >= ForDelegate(a)' + ForSetup(a)'
  <2>1. ForSetup(a)' = ForSetup(a)
    BY DEF ForSetup, Preparing, Running, InputOf, ChainMoves
  <2>2. balance[a] \in Nat /\ balance[a] >= ForDelegate(a) + ForSetup(a)
    BY <1>3 DEF Backed, Stocked
  <2>3. ForDelegate(a) \in {0, 1} /\ ForSetup(a) \in Nat
    BY SetupNeeds
  <2>4. CASE a = b
    <3>1. ForDelegate(a) = 1 /\ ForDelegate(a)' = 0
      BY <1>2, <1>5, <2>4 DEF ForDelegate
    <3> QED
      BY <1>5, <2>1, <2>2, <2>3, <2>4, <3>1
  <2>5. CASE a # b
    <3>1. ForDelegate(a)' <= ForDelegate(a) /\ ForDelegate(a)' \in {0, 1}
      BY <1>3, <1>4, <1>5, <2>5 DEF ForDelegate
    <3> QED
      BY <1>5, <2>1, <2>2, <2>3, <2>5, <3>1
  <2> QED
    BY <2>4, <2>5
<1> QED
  BY <1>5, <1>6, <1>7, <1>8 DEF Backed, Stocked

(* Time passing, a rescue by another keeper and a cleanup are such steps. *)
LEMMA CloseMoves ==
  ASSUME TypeOK, NEW e \in Escrows, Pending(e), NEW how, NEW by, NEW earned,
         [how |-> how, by |-> by, earned |-> earned] \in Fate, Close(e, how, by, earned),
         UNCHANGED <<slot, order, script>>
  PROVE  ChainMoves /\ ~Pending(e)'
<1>1. [status |-> "closed", buffer |-> 0, creation |-> 0] \in Account
  BY DEF Account
<1> QED
  BY <1>1 DEF ChainMoves, Close, TypeOK, Pending

(* Where neither a transaction nor a call moves, both stay sound. *)
LEMMA QuietKeepsCalls ==
  ASSUME TypeOK, Hedged, Called, WonIsOver, ChainMoves, UNCHANGED <<network, call>>
  PROVE  Hedged' /\ Called'
<1>1. \A e \in Escrows : Won(e) => Won(e)'
  BY ChainKeepsWon
<1>2. Hedged'
  BY DEF Hedged, Idle
<1>3. Won(script.escrow) => Won(script.escrow)'
  BY <1>1 DEF ChainMoves, TypeOK, Won
<1>4. Called'
  BY <1>3 DEF Called, Idle, At, Steps, TxOf, ChainMoves
<1> QED
  BY <1>2, <1>4

(* What nobody but the chain does. *)
LEMMA QuietKeepsInv ==
  ASSUME Inv, ChainMoves, UNCHANGED <<network, call, balance, delegate>>
  PROVE  Inv'
<1>1. TypeOK'
  BY DEF Inv, TypeOK, ChainMoves
<1> QED
  BY <1>1, QuietKeepsCalls, ChainKeepsWon, ChainKeepsFresh, ChainKeepsBacked DEF Inv

(* A slot passes. *)
LEMMA NextSlotKeepsInv ==
  ASSUME Inv, NextSlot, UNCHANGED demoVars
  PROVE  Inv'
<1>1. ChainMoves /\ UNCHANGED <<network, call, balance, delegate>>
  BY DEF Inv, TypeOK, NextSlot, ChainMoves, demoVars
<1> QED
  BY <1>1, QuietKeepsInv

(* The failures end. *)
LEMMA CalmDownKeepsInv ==
  ASSUME Inv, CalmDown, UNCHANGED demoVars
  PROVE  Inv'
<1>1. ChainMoves /\ UNCHANGED <<network, call, balance, delegate>>
  BY DEF Inv, TypeOK, CalmDown, ChainMoves, demoVars
<1> QED
  BY <1>1, QuietKeepsInv

(* Somebody cleans up an escrow. *)
LEMMA CleanupKeepsInv ==
  ASSUME Inv, NEW e \in Escrows, cleanupExpiredEscrow(e), UNCHANGED demoVars
  PROVE  Inv'
<1>1. [how |-> "cleanup", by |-> "rival", earned |-> 0] \in Fate
  BY DEF Fate
<1>2. ChainMoves /\ UNCHANGED <<network, call, balance, delegate>>
  BY <1>1, CloseMoves DEF Inv, cleanupExpiredEscrow, demoVars
<1> QED
  BY <1>2, QuietKeepsInv

(* Somebody tops up an escrow. *)
LEMMA TopUpKeepsInv ==
  ASSUME Inv, NEW e \in Escrows, topUpBuffer(e), UNCHANGED demoVars
  PROVE  Inv'
<1>1. PICK amount \in TopUps : account' = [account EXCEPT ![e].buffer = @ + amount]
  BY DEF topUpBuffer
<1>2. /\ account \in [Escrows -> Account] /\ amount \in Nat
      /\ account[e] \in Account /\ account[e].buffer \in Nat
  BY ClientAssumption DEF Inv, TypeOK, Account
<1>3. /\ [account[e] EXCEPT !.buffer = account[e].buffer + amount] \in Account
      /\ [account[e] EXCEPT !.buffer = account[e].buffer + amount].status = account[e].status
  BY <1>2 DEF Account
<1>4. /\ account' \in [Escrows -> Account]
      /\ \A x \in Escrows : account'[x].status = account[x].status
  BY <1>1, <1>2, <1>3
<1>5. UNCHANGED <<slot, order, fate, script, network, call, balance, delegate>>
  BY DEF topUpBuffer, demoVars
<1>6. ChainMoves
  BY <1>4, <1>5 DEF ChainMoves, Inv, TypeOK
<1> QED
  BY <1>5, <1>6, QuietKeepsInv

(* A keeper swaps through an escrow. *)
LEMMA KeeperSwapKeepsInv ==
  ASSUME Inv, NEW e \in Escrows, KeeperSwaps(e)
  PROVE  Inv'
<1> DEFINE how == IF IsRescue(Elapsed(e)) THEN "rescue" ELSE "ordinary"
<1>1. how \in {"rescue", "ordinary"}
  OBVIOUS
<1> HIDE DEF how
<1>2. [how |-> how, by |-> "rival", earned |-> 0] \in Fate
  BY <1>1 DEF Fate
<1>3. /\ Pending(e) /\ CanSpend(e) /\ Spent(e) /\ Close(e, how, "rival", 0)
      /\ UNCHANGED <<slot, order, script, network, call>>
  BY DEF KeeperSwaps, RivalSwap, Spent, how
<1>4. ChainMoves /\ ~Pending(e)'
  BY <1>2, <1>3, CloseMoves DEF Inv
<1>5. Backed' /\ balance' \in [Accounts -> Nat]
      /\ delegate' \in [Accounts -> Escrows \cup {NoDelegate}]
  BY <1>3, <1>4, SpendingKeepsBacked DEF Inv
<1>6. TypeOK'
  BY <1>3, <1>4, <1>5 DEF Inv, TypeOK, ChainMoves
<1> QED
  BY <1>3, <1>4, <1>5, <1>6, QuietKeepsCalls, ChainKeepsWon, ChainKeepsFresh DEF Inv

-----------------------------------------------------------------------------
(* Steps of the network. *)

(* A transaction that leaves takes only its own call along. *)
LEMMA LeavingKeepsCalls ==
  ASSUME TypeOK, Hedged, Called, WonIsOver, ChainMoves, NEW tx \in network,
         NEW step, step \in {"landed", "threw"}, Leaves(tx, step),
         step = "landed" /\ tx.awaited => Won(tx.escrow)'
  PROVE  /\ Hedged' /\ Called'
         /\ network' \subseteq Tx /\ call' \in [Clients -> Call]
<1>1. tx \in Tx /\ tx.by = Me /\ tx.escrow \in Escrows /\ tx.awaited \in BOOLEAN
  BY OnlyMe DEF TypeOK, Tx
<1>2. call[Me] \in Call /\ Me \in Clients
  BY OnlyMe DEF TypeOK
<1>3. network' = network \ {tx}
  BY DEF Leaves
<1>4. Won(script.escrow) => Won(script.escrow)'
  BY ChainKeepsWon DEF ChainMoves, TypeOK, Won
<1>5. At("execute")' = At("execute") /\ script' = script
  BY DEF At, Steps, ChainMoves
<1>6. CASE ~tx.awaited
  <2>1. call' = call
    BY <1>6 DEF Leaves
  <2>2. Hedged'
    BY <1>3, <2>1 DEF Hedged, Idle
  <2>3. Called'
    BY <1>3, <1>4, <1>5, <2>1 DEF Called, Idle, TxOf
  <2> QED
    BY <1>3, <2>1, <2>2, <2>3 DEF TypeOK
<1>7. CASE tx.awaited
  <2>1. call[Me].step = "confirm" /\ tx = TxOf(Me, TRUE) /\ tx.escrow = call[Me].escrow
    BY <1>7 DEF Called, TxOf
  <2>2. ~Idle(Me) /\ At("execute") /\ call[Me].escrow = script.escrow
    BY <2>1 DEF Called, Idle
  <2>3. call' = [call EXCEPT ![Me].step = step]
    BY <1>1, <1>7 DEF Leaves, StepTo
  <2>4. /\ call'[Me].step = step /\ call'[Me].tip = call[Me].tip
        /\ call'[Me].escrow = call[Me].escrow /\ call' \in [Clients -> Call]
    BY <1>2, <2>3 DEF TypeOK, Call, Step
  <2>5. \A t \in network' : ~t.awaited
    BY <1>3, <2>1 DEF Called
  <2>6. Hedged'
    BY <1>3, <2>2, <2>4 DEF Hedged
  <2>7. step = "landed" => Won(script.escrow)'
    BY <1>5, <1>7, <2>1, <2>2 DEF Won
  <2>8. Called'
    BY <1>5, <2>1, <2>2, <2>4, <2>5, <2>7 DEF Called, Idle
  <2> QED
    BY <1>3, <2>4, <2>6, <2>8 DEF TypeOK
<1> QED
  BY <1>1, <1>6, <1>7

(* A demo's own swap lands, awaited or late. *)
LEMMA SwapLandsKeepsInv ==
  ASSUME Inv, NEW tx \in network, SwapLands(tx)
  PROVE  Inv'
<1> DEFINE e == tx.escrow
<1>1. tx \in Tx /\ tx.by = Me /\ e \in Escrows /\ tx.tip \in Nat
  BY OnlyMe DEF Inv, TypeOK, Tx
<1>2. PICK how, earned :
        /\ how \in {"rescue", "ordinary"} /\ earned \in Int
        /\ Close(e, how, Me, earned)
  <2>1. KeeperShare(account[e].buffer) \in Nat
    BY <1>1, KeeperShareBounds DEF Inv, TypeOK, Account
  <2>2. CASE IsRescue(Elapsed(e))
    <3>1. Close(e, "rescue", Me, KeeperShare(account[e].buffer) - tx.tip)
      BY <1>1, <2>2 DEF SwapLands, Land
    <3> QED
      BY <1>1, <2>1, <3>1
  <2>3. CASE ~IsRescue(Elapsed(e))
    <3>1. Close(e, "ordinary", Me, 0 - tx.tip)
      BY <1>1, <2>3 DEF SwapLands, Land
    <3> QED
      BY <1>1, <3>1
  <2> QED
    BY <2>2, <2>3
<1>3. /\ Pending(e) /\ CanSpend(e) /\ Spent(e) /\ Leaves(tx, "landed")
      /\ UNCHANGED <<slot, order, script>>
  BY DEF SwapLands, Land, Lands, Spent
<1>4. [how |-> how, by |-> Me, earned |-> earned] \in Fate
  BY <1>2, OnlyMe DEF Fate
<1>5. ChainMoves /\ ~Pending(e)'
  BY <1>1, <1>2, <1>3, <1>4, CloseMoves DEF Inv
<1>6. Won(e)'
  BY <1>1, <1>2 DEF Close, Won, Inv, TypeOK
<1>7. /\ Hedged' /\ Called' /\ network' \subseteq Tx /\ call' \in [Clients -> Call]
  BY <1>3, <1>5, <1>6, LeavingKeepsCalls DEF Inv
<1>8. Backed' /\ balance' \in [Accounts -> Nat]
      /\ delegate' \in [Accounts -> Escrows \cup {NoDelegate}]
  BY <1>1, <1>3, <1>5, SpendingKeepsBacked DEF Inv
<1>9. TypeOK'
  BY <1>5, <1>7, <1>8 DEF Inv, TypeOK, ChainMoves
<1> QED
  BY <1>5, <1>7, <1>8, <1>9, ChainKeepsWon, ChainKeepsFresh DEF Inv

(* A transaction fails on chain or is dropped. *)
LEMMA LosingKeepsInv ==
  ASSUME Inv, NEW tx \in network, SwapRefused(tx) \/ (Expire(tx) /\ UNCHANGED demoVars)
  PROVE  Inv'
<1>1. Leaves(tx, "threw") /\ UNCHANGED chainVars /\ UNCHANGED demoVars
  BY DEF SwapRefused, Refuse, Expire
<1>2. ChainMoves /\ UNCHANGED <<balance, delegate>>
  BY <1>1 DEF ChainMoves, chainVars, demoVars, Inv, TypeOK
<1>3. Hedged' /\ Called' /\ network' \subseteq Tx /\ call' \in [Clients -> Call]
  BY <1>1, <1>2, LeavingKeepsCalls DEF Inv
<1>4. TypeOK'
  BY <1>2, <1>3 DEF Inv, TypeOK, ChainMoves
<1> QED
  BY <1>2, <1>3, <1>4, ChainKeepsWon, ChainKeepsFresh, ChainKeepsBacked DEF Inv

-----------------------------------------------------------------------------
(* Steps of the call. *)

(* A step that moves only the call, and not to a success, keeps it sound.     *)
LEMMA CallStepKeepsInv ==
  ASSUME Inv, UNCHANGED <<chainVars, demoVars>>, ~Idle(Me), NEW step \in Step,
         step \notin {"idle", "readEscrow", "readSlot"},
         call' = [call EXCEPT ![Me].step = step],
         network' \subseteq Tx, \A tx \in network' : tx.tip = HEDGE_TIP,
         \A tx \in network' :
           tx.awaited => step = "confirm" /\ tx = TxOf(Me, TRUE),
         step \in {"landed", "executed"} => Won(script.escrow)
  PROVE  Inv'
<1>1. call[Me] \in Call /\ Me \in Clients
  BY OnlyMe DEF Inv, TypeOK
<1>2. /\ call'[Me].step = step /\ call'[Me].tip = call[Me].tip
      /\ call'[Me].basis = call[Me].basis
      /\ call'[Me].escrow = call[Me].escrow /\ call' \in [Clients -> Call]
  BY <1>1 DEF Inv, TypeOK, Call, Step
<1>3. ChainMoves /\ UNCHANGED <<balance, delegate>>
  BY DEF ChainMoves, chainVars, demoVars, Inv, TypeOK
<1>4. At("execute")' = At("execute") /\ script' = script
  BY DEF At, Steps, demoVars
<1>5. Hedged'
  BY <1>2, <1>3 DEF Hedged, Idle, Inv
<1>6. TxOf(Me, TRUE)' = TxOf(Me, TRUE)
  BY <1>2 DEF TxOf
<1>7. Won(script.escrow) => Won(script.escrow)'
  BY <1>3, ChainKeepsWon DEF Inv, ChainMoves, TypeOK, Won
<1>8. Called'
  BY <1>2, <1>4, <1>6, <1>7 DEF Called, Idle, Inv
<1>9. TypeOK'
  BY <1>2, <1>3 DEF Inv, TypeOK, ChainMoves
<1> QED
  BY <1>3, <1>5, <1>8, <1>9, ChainKeepsWon, ChainKeepsFresh, ChainKeepsBacked DEF Inv

(* The steps of the client. *)
LEMMA ClientKeepsInv ==
  ASSUME Inv, NEW c \in Clients, ClientStep(c), UNCHANGED demoVars
  PROVE  Inv'
<1>1. c = Me /\ call[Me] \in Call /\ Me \in Clients
  BY OnlyMe DEF Inv, TypeOK
<1>2. call[Me].step \notin {"readEscrow", "readSlot"}
  BY DEF Inv, Called
<1>3. network \subseteq Tx /\ \A tx \in network : tx.tip = HEDGE_TIP
  BY DEF Inv, TypeOK, Hedged
<1>4. \A tx \in network : tx.awaited => call[Me].step = "confirm" /\ tx = TxOf(Me, TRUE)
  BY DEF Inv, Called
<1>5. ASSUME NEW b \in BOOLEAN, ~Idle(Me)
      PROVE  TxOf(Me, b) \in Tx /\ TxOf(Me, b).tip = HEDGE_TIP /\ TxOf(Me, b).awaited = b
  BY <1>1, <1>5 DEF TxOf, Tx, Call, Inv, Hedged
<1>6. CASE ReadAgain(Me)
  <2>1. /\ ~Idle(Me) /\ call[Me].step = "readAgain" /\ call' = [call EXCEPT ![Me].step = "send"]
        /\ UNCHANGED <<chainVars, network>>
    BY <1>6 DEF ReadAgain, StepTo, Idle
  <2> QED
    BY <1>3, <1>4, <2>1, CallStepKeepsInv DEF Step
<1>7. CASE ReadThrows(Me)
  <2>1. /\ ~Idle(Me) /\ call[Me].step = "readAgain" /\ call' = [call EXCEPT ![Me].step = "threw"]
        /\ UNCHANGED <<chainVars, network>>
    BY <1>2, <1>7 DEF ReadThrows, StepTo, Idle
  <2> QED
    BY <1>3, <1>4, <2>1, CallStepKeepsInv DEF Step
<1>8. CASE Send(Me)
  <2>1. ~Idle(Me) /\ call[Me].step = "send" /\ UNCHANGED chainVars
    BY <1>8 DEF Send, Idle
  <2>2. CASE call' = [call EXCEPT ![Me].step = "confirm"] /\ network' = network \cup {TxOf(Me, TRUE)}
    BY <1>3, <1>4, <1>5, <2>1, <2>2, CallStepKeepsInv DEF Step
  <2>3. CASE call' = [call EXCEPT ![Me].step = "threw"] /\ UNCHANGED network
    BY <1>3, <1>4, <2>1, <2>3, CallStepKeepsInv DEF Step
  <2> QED
    BY <1>8, <2>2, <2>3 DEF Send, StepTo
<1>9. CASE Confirm(Me)
  <2>1. /\ ~Idle(Me) /\ call[Me].step = "landed" /\ call' = [call EXCEPT ![Me].step = "executed"]
        /\ UNCHANGED <<chainVars, network>>
    BY <1>9 DEF Confirm, StepTo, Idle
  <2>2. Won(script.escrow)
    BY <2>1 DEF Inv, Called
  <2> QED
    BY <1>3, <1>4, <2>1, <2>2, CallStepKeepsInv DEF Step
<1>10. CASE GiveUp(Me)
  <2>1. /\ ~Idle(Me) /\ call' = [call EXCEPT ![Me].step = "threw"] /\ UNCHANGED chainVars
        /\ network' \subseteq {tx \in network : ~(tx.by = Me /\ tx.awaited)} \cup {TxOf(Me, FALSE)}
    BY <1>10 DEF GiveUp, StepTo, Idle
  <2>2. \A tx \in network : tx.by = Me
    BY <1>3, OnlyMe DEF Tx
  <2>3. \A tx \in network' : tx \in Tx /\ tx.tip = HEDGE_TIP /\ ~tx.awaited
    BY <1>3, <1>5, <2>1, <2>2
  <2> QED
    BY <2>1, <2>3, CallStepKeepsInv DEF Step
<1> QED
  BY <1>1, <1>2, <1>6, <1>7, <1>8, <1>9, <1>10 DEF ClientStep, ReadEscrow, ReadSlot

-----------------------------------------------------------------------------
(* Steps of the script. *)

(* What a step seen to work does to the script, and what the last one does. *)
LEMMA Advancing ==
  ASSUME TypeOK, Advance
  PROVE  /\ script'.pc = script.pc + 1 /\ script'.program = script.program
         /\ script'.escrow = script.escrow /\ script'.standing = script.standing
         /\ script'.unused = script.unused
         /\ script' \in [program : Programs, pc : Nat \ {0}, escrow : Escrows,
                         standing : {"running", "dead", "finished"}, unused : SUBSET Escrows]
BY DEF TypeOK, Advance

(* A script that died keeps its place and its escrow. *)
LEMMA Dying ==
  ASSUME TypeOK, Dies
  PROVE  /\ script'.program = script.program
         /\ script'.escrow = script.escrow /\ script'.standing = "dead"
         /\ script'.unused = script.unused
         /\ ~Running' /\ ~Preparing' /\ ~Swapping' /\ ~PastSwap'
         /\ script' \in [program : Programs, pc : Nat \ {0}, escrow : Escrows,
                         standing : {"running", "dead", "finished"}, unused : SUBSET Escrows]
BY DEF TypeOK, Dies, Running, Preparing, Swapping, PastSwap

(* A step that leaves no call behind, and nothing awaited, keeps both sound. *)
LEMMA IdleAfterwards ==
  ASSUME TypeOK, Hedged, Called, UNCHANGED network, call' \in [Clients -> Call],
         call[Me].step # "confirm", call'[Me].step = "idle"
  PROVE  Hedged' /\ Called'
<1>1. \A tx \in network : ~tx.awaited
  BY DEF Called
<1> QED
  BY <1>1 DEF Hedged, Called, Idle

(* A script that needs no more than before keeps the accounts good for it. *)
LEMMA ScriptKeepsBacked ==
  ASSUME TypeOK, Backed, UNCHANGED <<account, balance, delegate>>,
         script'.program = script.program,
         \A a \in Accounts : ForSetup(a)' \in Nat /\ ForSetup(a)' <= ForSetup(a),
         Swapping' => Swapping /\ script'.escrow = script.escrow
  PROVE  Backed'
<1>1. \A e \in Escrows : InputOf(e)' = InputOf(e)
  BY DEF InputOf
<1>2. \A e \in Escrows : Pending(e)' = Pending(e)
  BY DEF Pending
<1>3. OwnAccount'
  BY <1>1 DEF Backed, OwnAccount, TypeOK
<1>4. Allowed'
  BY <1>1, <1>2 DEF Backed, Allowed
<1>5. ASSUME NEW a \in Accounts
      PROVE  balance'[a] >= ForDelegate(a)' + ForSetup(a)'
  <2>1. ForDelegate(a)' = ForDelegate(a)
    BY DEF ForDelegate, Pending
  <2>2. balance'[a] = balance[a] /\ balance[a] \in Nat /\ balance[a] >= ForDelegate(a) + ForSetup(a)
    BY DEF Backed, Stocked, TypeOK
  <2>3. ForDelegate(a) \in {0, 1} /\ ForSetup(a) \in Nat
    BY SetupNeeds
  <2> QED
    BY <2>1, <2>2, <2>3
<1> QED
  BY <1>3, <1>4, <1>5 DEF Backed, Stocked

(* Where a script that steps on, with the escrows left alone, has won what it *)
(* is past, and what it is preparing is still to come.                        *)
LEMMA ScriptKeepsEscrows ==
  ASSUME TypeOK, WonIsOver, FreshAhead, UNCHANGED <<account, fate>>,
         script'.escrow = script.escrow, script'.unused = script.unused,
         PastSwap' => Won(script.escrow), Preparing' => Preparing
  PROVE  WonIsOver' /\ FreshAhead'
<1>1. \A e \in Escrows : Won(e)' = Won(e)
  BY DEF Won
<1>2. script.escrow \in Escrows
  BY DEF TypeOK
<1>3. PastSwap' => Won(script.escrow)'
  BY DEF Won
<1>4. WonIsOver'
  BY <1>1, <1>3 DEF WonIsOver
<1>5. FreshAhead'
  BY DEF FreshAhead
<1> QED
  BY <1>4, <1>5

(* What a setup step puts into the pool is there. *)
LEMMA SetupFinds ==
  ASSUME Inv, At("setup")
  PROVE  balance[InputOf(script.escrow)] >= Steps[script.pc].takes
<1> DEFINE p == script.program
           i == script.pc
           a == InputOf(script.escrow)
<1>1. TypeOK /\ p \in Programs /\ script.escrow \in Escrows
  BY DEF Inv, TypeOK
<1>2. /\ Running /\ i \in 1 .. Len(Steps) /\ InitAt(p) \in Nat /\ StepFits(p, i)
      /\ Steps[i].do = "setup" /\ i < InitAt(p)
  BY <1>1, WhereItIs
<1>3. /\ Steps[i].brings \in Nat /\ Steps[i].takes \in Nat
      /\ Steps[i].brings = 0 \/ Steps[i].takes = 0
      /\ Stock(p, i + 1) = Stock(p, i) + Steps[i].brings - Steps[i].takes
  BY <1>2 DEF StepFits, Steps
<1>4. Stock(p, i) \in Nat /\ Stock(p, i + 1) \in Nat
  BY <1>1, <1>2, ScriptsFit DEF TypeOK
<1>5. ForSetup(a) = Stock(p, i) /\ ForDelegate(a) \in {0, 1}
  BY <1>1, <1>2, SetupNeeds DEF ForSetup, Preparing, TypeOK
<1>6. balance[a] \in Nat /\ balance[a] >= ForDelegate(a) + ForSetup(a)
  BY <1>1, InputAccounts DEF Inv, Backed, Stocked, TypeOK
<1> QED
  BY <1>3, <1>4, <1>5, <1>6

(* A setup step, whose tokens arrive whether or not it was seen to work. *)
LEMMA RunSetupKeepsInv ==
  ASSUME Inv, RunSetup
  PROVE  Inv'
<1> DEFINE p == script.program
           i == script.pc
           step == Steps[i]
           b == InputOf(script.escrow)
<1>1. At("setup") /\ TypeOK
  BY DEF RunSetup, Inv
<1>2. /\ Running /\ i \in 1 .. Len(Steps) /\ InitAt(p) \in Nat /\ StepFits(p, i)
      /\ step.do = "setup" /\ i < InitAt(p) /\ p \in Programs
  BY <1>1, WhereItIs DEF TypeOK
<1>3. /\ step.brings \in Nat /\ step.takes \in Nat
      /\ Stock(p, i + 1) = Stock(p, i) + step.brings - step.takes
  BY <1>2 DEF StepFits, Steps
<1>4. Stock(p, i) \in Nat /\ Stock(p, i + 1) \in Nat
  BY <1>1, <1>2, ScriptsFit DEF TypeOK
<1>5. b \in Accounts /\ balance \in [Accounts -> Nat] /\ script.escrow \in Escrows
  BY <1>1, InputAccounts DEF TypeOK
<1>6. /\ balance[b] >= step.takes
      /\ balance' = [balance EXCEPT ![b] = @ + step.brings - step.takes]
      /\ Advance \/ Dies
      /\ UNCHANGED <<slot, order, account, fate, network, call, delegate>>
  BY <1>1, SetupFinds DEF RunSetup, clientVars, chainVars
<1>7. \A a \in Accounts : ForSetup(a) = IF a = b THEN Stock(p, i) ELSE 0
  BY <1>1, <1>2 DEF ForSetup, Preparing, TypeOK
<1>8. ~At("execute") /\ Idle(Me) /\ ~PastSwap
  <2>1. ~At("execute")
    BY <1>1 DEF At
  <2>2. Idle(Me)
    BY <1>1, <2>1, IdleElsewhere DEF Inv
  <2>3. ~(i > InitAt(p) + 1)
    BY <1>1, <1>2 DEF TypeOK
  <2>4. ~PastSwap
    BY <1>2, <2>3 DEF PastSwap, Running
  <2> QED
    BY <2>1, <2>2, <2>4
<1>9. /\ script' \in [program : Programs, pc : Nat \ {0}, escrow : Escrows,
                      standing : {"running", "dead", "finished"}, unused : SUBSET Escrows]
      /\ script'.program = p /\ script'.escrow = script.escrow /\ script'.unused = script.unused
      /\ ~PastSwap' /\ ~Swapping' /\ (Preparing' => Preparing /\ script'.pc = i + 1)
  <2>1. CASE Advance
    BY <1>1, <1>2, <2>1, Advancing DEF PastSwap, Swapping, Preparing, Running, TypeOK
  <2>2. CASE Dies
    BY <1>1, <2>2, Dying
  <2> QED
    BY <1>6, <2>1, <2>2
<1>10. \A e \in Escrows : InputOf(e)' = InputOf(e) /\ Pending(e)' = Pending(e)
  BY <1>6, <1>9 DEF InputOf, Pending
<1>11. \A a \in Accounts : ForSetup(a)' \in {0, IF a = b THEN Stock(p, i + 1) ELSE 0}
  BY <1>5, <1>9, <1>10 DEF ForSetup
<1>12. /\ balance' \in [Accounts -> Nat]
       /\ balance'[b] = balance[b] + step.brings - step.takes
       /\ \A a \in Accounts \ {b} : balance'[a] = balance[a]
  BY <1>3, <1>5, <1>6
<1>13. ASSUME NEW a \in Accounts
       PROVE  balance'[a] >= ForDelegate(a)' + ForSetup(a)'
  <2>1. ForDelegate(a)' = ForDelegate(a)
    BY <1>6 DEF ForDelegate, Pending
  <2>2. balance[a] \in Nat /\ balance[a] >= ForDelegate(a) + ForSetup(a)
    BY <1>5 DEF Inv, Backed, Stocked
  <2>3. ForDelegate(a) \in {0, 1}
    BY <1>1, SetupNeeds
  <2> HIDE DEF b, step, i, p
  <2>4. CASE a = b
    BY <1>3, <1>4, <1>7, <1>11, <1>12, <2>1, <2>2, <2>3, <2>4
  <2>5. CASE a # b
    BY <1>7, <1>11, <1>12, <2>1, <2>2, <2>3, <2>5
  <2> QED
    BY <2>4, <2>5
<1>14. OwnAccount' /\ Allowed'
  <2>1. OwnAccount'
    BY <1>1, <1>6, <1>10 DEF Inv, Backed, OwnAccount, TypeOK
  <2>2. Allowed'
    BY <1>6, <1>9, <1>10 DEF Inv, Backed, Allowed
  <2> QED
    BY <2>1, <2>2
<1>15. Hedged' /\ Called'
  BY <1>1, <1>6, <1>8, IdleAfterwards DEF Inv, Idle, TypeOK
<1>16. WonIsOver' /\ FreshAhead'
  BY <1>1, <1>6, <1>9, ScriptKeepsEscrows DEF Inv
<1>17. TypeOK'
  BY <1>1, <1>6, <1>9, <1>12 DEF TypeOK
<1> QED
  BY <1>13, <1>14, <1>15, <1>16, <1>17 DEF Inv, Backed, Stocked

(* A step that touches the script alone, needs nothing more of the accounts   *)
(* and reports no swap that was not made.                                     *)
LEMMA ScriptStepKeepsInv ==
  ASSUME Inv, UNCHANGED <<slot, order, account, fate, network, balance, delegate>>,
         call' \in [Clients -> Call], call[Me].step # "confirm", call'[Me].step = "idle",
         script' \in [program : Programs, pc : Nat \ {0}, escrow : Escrows,
                      standing : {"running", "dead", "finished"}, unused : SUBSET Escrows],
         script'.program = script.program, script'.escrow = script.escrow,
         script'.unused = script.unused,
         PastSwap' => Won(script.escrow), Swapping' => Swapping, Preparing' => Preparing,
         Preparing' => Stock(script.program, script'.pc) = Stock(script.program, script.pc)
  PROVE  Inv'
<1>1. TypeOK
  BY DEF Inv
<1>2. TypeOK'
  BY <1>1 DEF TypeOK
<1>3. Hedged' /\ Called'
  BY <1>1, IdleAfterwards DEF Inv
<1>4. WonIsOver' /\ FreshAhead'
  BY <1>1, ScriptKeepsEscrows DEF Inv
<1>5. ASSUME NEW a \in Accounts
      PROVE  ForSetup(a)' \in Nat /\ ForSetup(a)' <= ForSetup(a)
  <2>1. ForSetup(a) \in Nat
    BY <1>1, SetupNeeds
  <2>2. ForSetup(a)' \in {0, ForSetup(a)}
    BY DEF ForSetup, InputOf
  <2> QED
    BY <2>1, <2>2
<1>6. Backed'
  BY <1>1, <1>5, ScriptKeepsBacked DEF Inv
<1> QED
  BY <1>2, <1>3, <1>4, <1>6 DEF Inv

(* The route is built. *)
LEMMA BuildRouteKeepsInv ==
  ASSUME Inv, BuildRoute
  PROVE  Inv'
<1>1. At("route") /\ TypeOK /\ Called /\ (Advance \/ Dies)
  BY DEF BuildRoute, Inv
<1>2. ~At("execute") /\ Idle(Me)
  <2>1. ~At("execute")
    BY <1>1 DEF At
  <2> QED
    BY <1>1, <2>1, IdleElsewhere
<1>3. UNCHANGED <<slot, order, account, fate, network, call, balance, delegate>>
  BY DEF BuildRoute, clientVars, chainVars
<1>4. CASE Dies
  BY <1>1, <1>2, <1>3, <1>4, Dying, ScriptStepKeepsInv DEF Idle, TypeOK
<1>5. CASE Advance
  <2>1. /\ Running /\ InitAt(script.program) \in Nat /\ script.pc < InitAt(script.program)
        /\ script.pc \in Nat
        /\ Stock(script.program, script.pc + 1) = Stock(script.program, script.pc)
    BY <1>1, WhereItIs DEF StepFits, Steps, TypeOK
  <2>2. ~PastSwap' /\ ~Swapping' /\ Preparing /\ script'.pc = script.pc + 1
    BY <1>1, <1>5, <2>1, Advancing DEF PastSwap, Swapping, Preparing, Running
  <2> QED
    BY <1>1, <1>2, <1>3, <1>5, <2>1, <2>2, Advancing, ScriptStepKeepsInv DEF Idle, TypeOK
<1> QED
  BY <1>1, <1>4, <1>5

(* The output is read. *)
LEMMA ReadResultKeepsInv ==
  ASSUME Inv, ReadResult
  PROVE  Inv'
<1>1. At("read") /\ TypeOK /\ Called /\ Advance
  BY DEF ReadResult, Inv
<1>2. ~At("execute") /\ Idle(Me)
  <2>1. ~At("execute")
    BY <1>1 DEF At
  <2> QED
    BY <1>1, <2>1, IdleElsewhere
<1>3. /\ Running /\ InitAt(script.program) \in Nat /\ script.pc = InitAt(script.program) + 2
      /\ script.program # "orcaLive"
  BY <1>1, WhereItIs
<1>4. PastSwap /\ Swapping /\ ~Preparing'
  BY <1>1, <1>3, Advancing DEF PastSwap, Swapping, Preparing, Running
<1>5. UNCHANGED <<slot, order, account, fate, network, call, balance, delegate>>
  BY DEF ReadResult, clientVars, chainVars
<1>6. Won(script.escrow)
  BY <1>4 DEF Inv, WonIsOver
<1> QED
  BY <1>1, <1>2, <1>4, <1>5, <1>6, Advancing, ScriptStepKeepsInv DEF Idle, TypeOK

(* The call reports the swap done, or throws: the call is over. *)
LEMMA ReturningFrees ==
  ASSUME TypeOK, Returned(Me)
  PROVE  call' \in [Clients -> Call] /\ call'[Me].step = "idle"
<1>1. NoCall \in Call /\ NoCall.step = "idle"
  BY ClientAssumption DEF NoCall, Call, Step, AnyEscrow
<1> QED
  BY <1>1, OnlyMe DEF Returned, TypeOK

(* The script goes on from a swap that was made. *)
LEMMA ExecutedKeepsInv ==
  ASSUME Inv, Executed
  PROVE  Inv'
<1>1. /\ TypeOK /\ Called /\ Advance /\ Returned(Me) /\ call[Me].step = "executed"
      /\ UNCHANGED <<slot, order, account, fate, network, balance, delegate>>
  BY DEF Executed, Inv, chainVars
<1>2. At("execute") /\ Won(script.escrow)
  BY <1>1 DEF Called, Idle
<1>3. /\ Running /\ InitAt(script.program) \in Nat /\ script.pc = InitAt(script.program) + 1
  BY <1>1, <1>2, WhereItIs
<1>4. Swapping /\ ~Preparing'
  BY <1>1, <1>3, Advancing DEF Swapping, Preparing, Running
<1> QED
  BY <1>1, <1>2, <1>4, Advancing, ReturningFrees, ScriptStepKeepsInv

(* The script dies of a call that threw. *)
LEMMA ExecuteThrewKeepsInv ==
  ASSUME Inv, ExecuteThrew
  PROVE  Inv'
<1>1. /\ TypeOK /\ Dies /\ Returned(Me) /\ call[Me].step = "threw"
      /\ UNCHANGED <<slot, order, account, fate, network, balance, delegate>>
  BY DEF ExecuteThrew, Inv, chainVars
<1> QED
  BY <1>1, Dying, ReturningFrees, ScriptStepKeepsInv

(* Or of any other step. *)
LEMMA StepThrowsKeepsInv ==
  ASSUME Inv, StepThrows
  PROVE  Inv'
<1>1. /\ TypeOK /\ Dies /\ call[Me].step = "idle"
      /\ UNCHANGED <<slot, order, account, fate, network, call, balance, delegate>>
  BY DEF StepThrows, Inv, Idle, clientVars, chainVars
<1> QED
  BY <1>1, Dying, ScriptStepKeepsInv DEF TypeOK

(* The script ends, past its last step. *)
LEMMA FinishKeepsInv ==
  ASSUME Inv, Finish
  PROVE  Inv'
<1>1. /\ TypeOK /\ Running /\ script.pc > Len(Steps)
      /\ script' = [script EXCEPT !.standing = "finished"]
      /\ UNCHANGED <<slot, order, account, fate, network, call, balance, delegate>>
  BY DEF Finish, Inv, Running, clientVars, chainVars
<1>2. ~At("execute") /\ call[Me].step = "idle"
  <2>1. /\ script.pc \in Nat /\ Len(Steps) \in Nat
    BY <1>1, ScriptsFit DEF TypeOK, Steps
  <2>2. ~At("execute")
    BY <1>1, <2>1 DEF At
  <2> QED
    BY <2>2, IdleElsewhere DEF Inv, Idle
<1>3. script.program # "orcaLive" => PastSwap
  <2>1. /\ script.program \in Programs /\ script.pc \in Nat
    BY <1>1 DEF TypeOK
  <2>2. /\ script.program # "orcaLive" => Len(Steps) = InitAt(script.program) + 2
        /\ InitAt(script.program) \in Nat
    BY <2>1, ScriptsFit DEF Steps
  <2> QED
    BY <1>1, <2>1, <2>2 DEF PastSwap
<1>4. /\ script'.program = script.program /\ script'.escrow = script.escrow
      /\ script'.unused = script.unused /\ script'.standing = "finished"
      /\ script' \in [program : Programs, pc : Nat \ {0}, escrow : Escrows,
                      standing : {"running", "dead", "finished"}, unused : SUBSET Escrows]
  BY <1>1 DEF TypeOK
<1>5. ~Swapping' /\ ~Preparing' /\ (PastSwap' => Won(script.escrow))
  BY <1>3, <1>4 DEF Swapping, Preparing, Running, PastSwap, Inv, WonIsOver
<1> QED
  BY <1>1, <1>2, <1>4, <1>5, ScriptStepKeepsInv DEF TypeOK

(* A demo started again takes an escrow that is not there yet. *)
LEMMA StartAgainKeepsInv ==
  ASSUME Inv, StartAgain
  PROVE  Inv'
<1>1. TypeOK /\ script.standing \in {"dead", "finished"}
      /\ UNCHANGED <<slot, order, account, fate, network, call, balance, delegate>>
  BY DEF StartAgain, Inv, clientVars, chainVars
<1>2. PICK e \in script.unused :
        script' = [script EXCEPT !.pc = 1, !.standing = "running", !.escrow = e,
                                 !.unused = @ \ {e}]
  BY DEF StartAgain
<1>3. e \in Escrows /\ account[e].status = "fresh"
  BY <1>1, <1>2 DEF Inv, TypeOK, FreshAhead
<1>4. /\ script'.program = script.program /\ script'.escrow = e /\ script'.pc = 1
      /\ script'.unused = script.unused \ {e} /\ script'.standing = "running"
      /\ script' \in [program : Programs, pc : Nat \ {0}, escrow : Escrows,
                      standing : {"running", "dead", "finished"}, unused : SUBSET Escrows]
  <2>1. 1 \in Nat \ {0} /\ script.unused \ {e} \in SUBSET Escrows
    BY <1>1 DEF TypeOK
  <2> QED
    BY <1>1, <1>2, <1>3, <2>1 DEF TypeOK
<1>5. InitAt(script.program) \in Nat /\ InitAt(script.program) >= 1 /\ Stock(script.program, 1) = 0
  BY <1>1, ScriptsFit DEF TypeOK
<1>6. ~Swapping' /\ ~PastSwap'
  BY <1>4, <1>5 DEF Swapping, PastSwap, Running
<1>7. TypeOK'
  BY <1>1, <1>4 DEF TypeOK
<1>8. call[Me].step = "idle"
  <2>1. ~At("execute")
    BY <1>1 DEF At
  <2> QED
    BY <2>1, IdleElsewhere DEF Inv, Idle
<1>9. Hedged' /\ Called'
  BY <1>1, <1>8, IdleAfterwards DEF Inv, TypeOK
<1>10. WonIsOver'
  BY <1>1, <1>6 DEF Inv, WonIsOver, Won
<1>11. FreshAhead'
  BY <1>1, <1>3, <1>4 DEF Inv, FreshAhead
<1>12. \A a \in Accounts : ForSetup(a)' \in Nat /\ ForSetup(a)' <= ForSetup(a)
  <2>1. \A a \in Accounts : ForSetup(a)' = 0
    BY <1>4, <1>5 DEF ForSetup
  <2> QED
    BY <1>1, <2>1, SetupNeeds
<1>13. Backed'
  BY <1>1, <1>4, <1>6, <1>12, ScriptKeepsBacked DEF Inv
<1> QED
  BY <1>7, <1>9, <1>10, <1>11, <1>13 DEF Inv

(* The call for the script's escrow begins, with the fixed tip. *)
LEMMA ExecuteKeepsInv ==
  ASSUME Inv, Execute
  PROVE  Inv'
<1> DEFINE e == script.escrow
           new == [step |-> "readAgain", escrow |-> e, tip |-> HEDGE_TIP,
                   basis |-> account[e].buffer]
<1>1. /\ TypeOK /\ Called /\ At("execute") /\ call[Me].step = "idle"
      /\ call' = [call EXCEPT ![Me] = new]
      /\ UNCHANGED <<slot, order, account, fate, network, script, balance, delegate>>
  BY DEF Execute, HedgedTip, BeginWithTip, Idle, Inv, chainVars, demoVars
<1>2. new \in Call
  BY <1>1, DemoAssumption DEF TypeOK, Account, Call, Step
<1>3. call' \in [Clients -> Call] /\ call'[Me] = new
  BY <1>1, <1>2, OnlyMe DEF TypeOK
<1>4. /\ call'[Me].step = "readAgain" /\ call'[Me].escrow = e /\ call'[Me].tip = HEDGE_TIP
  BY <1>3
<1>5. ChainMoves
  BY <1>1 DEF ChainMoves, TypeOK
<1>6. TypeOK'
  BY <1>1, <1>3 DEF TypeOK
<1>7. Hedged'
  BY <1>1, <1>4 DEF Inv, Hedged
<1>8. At("execute")' /\ \A tx \in network : ~tx.awaited
  BY <1>1 DEF At, Steps, Called
<1>9. Called'
  BY <1>1, <1>4, <1>8 DEF Called
<1> QED
  BY <1>1, <1>5, <1>6, <1>7, <1>9, ChainKeepsWon, ChainKeepsFresh, ChainKeepsBacked DEF Inv

(* The escrow is opened and its account's allowance handed to it. *)
LEMMA InitializeKeepsInv ==
  ASSUME Inv, Initialize
  PROVE  Inv'
<1> DEFINE p == script.program
           e == script.escrow
           b == InputOf(e)
           new == [status |-> "pending", buffer |-> order[e].buffer, creation |-> slot]
<1>1. /\ TypeOK /\ Called /\ At("initialize") /\ account[e].status = "fresh"
      /\ account' = [account EXCEPT ![e] = new]
      /\ delegate' = [delegate EXCEPT ![b] = e]
      /\ Advance \/ Dies
      /\ UNCHANGED <<slot, order, fate, network, call, balance>>
  BY DEF Initialize, Opened, Inv
<1>2. /\ Running /\ InitAt(p) \in Nat /\ script.pc = InitAt(p) /\ p \in Programs /\ e \in Escrows
  BY <1>1, WhereItIs DEF TypeOK
<1>3. new \in Account /\ new.status = "pending" /\ new.buffer = order[e].buffer
  <2>1. order[e] \in Orders[e] /\ slot \in Nat
    BY <1>1, <1>2 DEF TypeOK
  <2>2. order[e].buffer \in Nat
    BY <1>2, <2>1, ClientAssumption
  <2> QED
    BY <2>1, <2>2 DEF Account
<1>4. b \in Accounts /\ e # NoDelegate
  BY <1>2, InputAccounts, DemoAssumption
<1> HIDE DEF new
<1>5. /\ account' \in [Escrows -> Account] /\ account'[e] = new
      /\ \A x \in Escrows \ {e} : account'[x] = account[x]
  BY <1>1, <1>2, <1>3 DEF TypeOK
<1>6. /\ delegate' \in [Accounts -> Escrows \cup {NoDelegate}] /\ delegate'[b] = e
      /\ \A a \in Accounts \ {b} : delegate'[a] = delegate[a]
  BY <1>1, <1>2, <1>4 DEF TypeOK
<1>7. ~At("execute") /\ call[Me].step = "idle"
  <2>1. ~At("execute")
    BY <1>1 DEF At
  <2> QED
    BY <1>1, <2>1, IdleElsewhere DEF Idle
<1>8. /\ script' \in [program : Programs, pc : Nat \ {0}, escrow : Escrows,
                      standing : {"running", "dead", "finished"}, unused : SUBSET Escrows]
      /\ script'.program = p /\ script'.escrow = e /\ script'.unused = script.unused
      /\ ~PastSwap' /\ ~Preparing'
  <2>1. CASE Advance
    BY <1>1, <1>2, <2>1, Advancing DEF PastSwap, Preparing, Running
  <2>2. CASE Dies
    BY <1>1, <2>2, Dying
  <2> QED
    BY <1>1, <2>1, <2>2
<1>9. TypeOK'
  BY <1>1, <1>5, <1>6, <1>8 DEF TypeOK
<1>10. Hedged' /\ Called'
  BY <1>1, <1>7, IdleAfterwards DEF Inv, TypeOK
<1>11. WonIsOver'
  <2>1. \A x \in Escrows : Won(x)' => x # e
    BY <1>1 DEF Won, Inv, WonIsOver
  <2> QED
    BY <1>1, <1>5, <1>8, <2>1 DEF Inv, WonIsOver, Won
<1>12. FreshAhead'
  BY <1>1, <1>5, <1>8 DEF Inv, FreshAhead, TypeOK
<1>13. \A x \in Escrows : InputOf(x)' = InputOf(x) /\ InputOf(x) \in Accounts
  BY <1>8, InputAccounts DEF InputOf
<1>14. OwnAccount'
  BY <1>1, <1>2, <1>6, <1>13 DEF Inv, Backed, OwnAccount, TypeOK
<1>15. Allowed'
  <2>1. ASSUME NEW x \in Escrows, x # e, Pending(x)',
               script'.program = "orcaDemo" => Swapping' /\ x = script'.escrow
        PROVE  delegate'[InputOf(x)] = x
    <3>1. p # "orcaDemo" /\ Pending(x)
      BY <1>5, <1>8, <2>1 DEF Pending
    <3>2. InputOf(x) = x /\ b = e
      BY <1>2, <3>1, InputAccounts
    <3>3. delegate[InputOf(x)] = x
      BY <3>1 DEF Inv, Backed, Allowed
    <3> QED
      BY <1>6, <1>13, <2>1, <3>2, <3>3
  <2> QED
    BY <1>6, <1>13, <2>1 DEF Allowed
<1>16. ASSUME NEW a \in Accounts
       PROVE  balance'[a] >= ForDelegate(a)' + ForSetup(a)'
  <2>1. ForSetup(a)' = 0
    BY <1>8 DEF ForSetup
  <2>2. balance'[a] = balance[a] /\ balance[a] \in Nat /\ balance[a] >= ForDelegate(a) + ForSetup(a)
    BY <1>1 DEF Inv, Backed, Stocked, TypeOK
  <2>3. ForDelegate(a) \in {0, 1} /\ ForSetup(a) \in Nat
    BY <1>1, SetupNeeds
  <2>4. CASE a = b
    <3>1. ForSetup(a) = Stock(p, InitAt(p))
      BY <1>2, <2>4 DEF ForSetup, Preparing
    <3>2. Stock(p, InitAt(p)) >= 1
      BY <1>2, ScriptsFit
    <3>3. ForDelegate(a)' \in {0, 1}
      BY DEF ForDelegate
    <3> HIDE DEF p
    <3> QED
      BY <2>1, <2>2, <2>3, <3>1, <3>2, <3>3
  <2>5. CASE a # b
    <3>1. delegate'[a] = delegate[a] /\ delegate[a] # e
      BY <1>4, <1>6, <2>5 DEF Inv, Backed, OwnAccount
    <3>2. ForDelegate(a)' = ForDelegate(a)
      BY <1>1, <1>5, <3>1 DEF ForDelegate, Pending, TypeOK
    <3> QED
      BY <2>1, <2>2, <2>3, <3>2
  <2> QED
    BY <2>4, <2>5
<1> QED
  BY <1>9, <1>10, <1>11, <1>12, <1>14, <1>15, <1>16 DEF Inv, Backed, Stocked

-----------------------------------------------------------------------------
(* The first script starts with nothing there. *)
LEMMA InitInv ==
  ASSUME Init
  PROVE  Inv
<1>1. /\ slot = 0 /\ network = {}
      /\ account = [e \in Escrows |-> [status |-> "fresh", buffer |-> 0, creation |-> 0]]
      /\ fate = [e \in Escrows |-> NoFate]
      /\ call = [c \in Clients |-> NoCall]
      /\ \A e \in Escrows : order[e] \in Orders[e]
      /\ balance = [a \in Accounts |-> 0]
      /\ delegate = [a \in Accounts |-> NoDelegate]
  BY DEF Init, ClientInit
<1>2. /\ script \in [program : Programs, pc : {1}, escrow : {AnyEscrow}, standing : {"running"},
                     unused : {Escrows \ {AnyEscrow}}]
      /\ \A e \in Escrows : order[e].route = RouteOf(script.program)
  BY DEF Init
<1>3. AnyEscrow \in Escrows /\ Me \in Clients
  BY ClientAssumption, OnlyMe DEF AnyEscrow
<1>4. NoFate \in Fate /\ NoFate.by # Me
  BY <1>3, ClientAssumption DEF NoFate, Fate
<1>5. NoCall \in Call /\ NoCall.step = "idle"
  BY <1>3 DEF NoCall, Call, Step
<1>6. /\ script.program \in Programs /\ script.pc = 1 /\ script.escrow = AnyEscrow
      /\ script.standing = "running" /\ script.unused = Escrows \ {AnyEscrow}
  BY <1>2
<1>7. \A e \in Escrows :
        /\ account[e] \in Account /\ account[e].status = "fresh" /\ ~Pending(e)
        /\ fate[e] = NoFate
  BY <1>1 DEF Account, Pending
<1>8. TypeOK
  <2>1. script \in [program : Programs, pc : Nat \ {0}, escrow : Escrows,
                    standing : {"running", "dead", "finished"}, unused : SUBSET Escrows]
    BY <1>2, <1>3
  <2>2. account \in [Escrows -> Account] /\ fate \in [Escrows -> Fate]
    BY <1>1, <1>4, <1>7
  <2>3. call \in [Clients -> Call]
    BY <1>1, <1>5
  <2> QED
    BY <1>1, <1>2, <2>1, <2>2, <2>3 DEF TypeOK
<1>9. InitAt(script.program) \in Nat /\ InitAt(script.program) >= 1
  BY <1>6, ScriptsFit
<1>10. call[Me] = NoCall
  BY <1>1, <1>3
<1>11. Hedged /\ Called
  BY <1>1, <1>5, <1>7, <1>10 DEF Hedged, Called, Idle
<1>12. WonIsOver
  BY <1>4, <1>6, <1>7, <1>9 DEF WonIsOver, Won, PastSwap
<1>13. FreshAhead
  BY <1>3, <1>6, <1>7 DEF FreshAhead
<1>14. OwnAccount /\ Allowed
  BY <1>1, <1>7 DEF OwnAccount, Allowed
<1>15. \A a \in Accounts : ForDelegate(a) = 0 /\ ForSetup(a) = 0
  BY <1>1, <1>6, <1>8, SetupNeeds DEF ForDelegate
<1> QED
  BY <1>1, <1>8, <1>11, <1>12, <1>13, <1>14, <1>15 DEF Inv, Backed, Stocked

(* Every step keeps the invariant. *)
LEMMA NextKeepsInv ==
  ASSUME Inv, [Next]_vars
  PROVE  Inv'
<1>1. CASE DriverStep
  BY <1>1, RunSetupKeepsInv, BuildRouteKeepsInv, InitializeKeepsInv, ExecuteKeepsInv,
     ExecutedKeepsInv, ExecuteThrewKeepsInv, ReadResultKeepsInv, FinishKeepsInv DEF DriverStep
<1>2. CASE StepThrows \/ StartAgain
  BY <1>2, StepThrowsKeepsInv, StartAgainKeepsInv
<1>3. CASE \E c \in Clients : ClientStep(c) /\ UNCHANGED demoVars
  BY <1>3, ClientKeepsInv
<1>4. CASE \E tx \in network :
             SwapLands(tx) \/ SwapRefused(tx) \/ (Expire(tx) /\ UNCHANGED demoVars)
  BY <1>4, SwapLandsKeepsInv, LosingKeepsInv
<1>5. CASE \E e \in Escrows :
             KeeperSwaps(e)
               \/ ((topUpBuffer(e) \/ cleanupExpiredEscrow(e)) /\ UNCHANGED demoVars)
  BY <1>5, KeeperSwapKeepsInv, TopUpKeepsInv, CleanupKeepsInv
<1>6. CASE (NextSlot \/ CalmDown) /\ UNCHANGED demoVars
  BY <1>6, NextSlotKeepsInv, CalmDownKeepsInv
<1>7. CASE UNCHANGED vars
  <2>1. ChainMoves /\ UNCHANGED <<network, call, balance, delegate>>
    BY <1>7 DEF vars, clientVars, chainVars, demoVars, ChainMoves, Inv, TypeOK
  <2> QED
    BY <2>1, QuietKeepsInv
<1> QED
  BY <1>1, <1>2, <1>3, <1>4, <1>5, <1>6, <1>7 DEF Next

(* Whatever fails, lands late or is started again, a script is at one step,   *)
(* its call belongs to that step, and the accounts hold what it still needs.  *)
(* (devnet-demo.mjs, devnet-orca-demo.mjs, devnet-raydium-demo.mjs,           *)
(* devnet-meteora-demo.mjs, devnet-orca-live.mjs)                             *)
THEOREM DemosInvariant == Spec => []Inv
<1>1. Init => Inv
  BY InitInv
<1>2. Inv /\ [Next]_vars => Inv'
  BY NextKeepsInv
<1> QED
  BY <1>1, <1>2, PTL DEF Spec

(* The fixed tip covers what the program asks for, whenever a swap lands,     *)
(* while the buffer is the one the script opened the escrow with.  A top-up   *)
(* by others may ask for more.  (devnet-orca-demo.mjs 110-121,                *)
(* devnet-demo.mjs 127-149, top_up_buffer.rs 8-15)                            *)
THEOREM HedgeAlwaysCovers == Spec => []HedgeCovers
<1>1. Inv => HedgeCovers
  <2> SUFFICES ASSUME Inv, NEW tx \in network, Pending(tx.escrow),
                      account[tx.escrow].buffer = order[tx.escrow].buffer
               PROVE  TipEnough(tx)
    BY DEF HedgeCovers
  <2> DEFINE e == tx.escrow
  <2>1. e \in Escrows /\ tx.tip = HEDGE_TIP
    BY DEF Inv, TypeOK, Hedged, Tx
  <2>2. order[e] \in Orders[e] /\ account[e].buffer = order[e].buffer
    BY <2>1 DEF Inv, TypeOK
  <2>3. Elapsed(e) \in Nat
    <3>1. slot \in Nat /\ account[e].creation \in Nat
      BY <2>1 DEF Inv, TypeOK, Account
    <3> QED
      BY <3>1 DEF Elapsed, saturating_sub
  <2>4. RequiredTip(order[e].buffer, Elapsed(e)) <= HEDGE_TIP
    BY <2>1, <2>2, <2>3, HedgeIsEnough
  <2>5. order[e].buffer \in Nat /\ HEDGE_TIP \in Nat
    BY <2>1, <2>2, ClientAssumption, DemoAssumption
  <2>6. RequiredTip(order[e].buffer, Elapsed(e)) \in Nat
    BY <2>3, <2>5, RequiredTipNat
  <2> QED
    BY <2>1, <2>2, <2>4, <2>5, <2>6 DEF TipEnough
<1> QED
  BY <1>1, DemosInvariant, PTL

(* The swap a demo waits for finds its accounts in order, its allowance and   *)
(* its tokens.  (devnet-raydium-demo.mjs 43-140, devnet-meteora-demo.mjs      *)
(* 50-138, devnet-orca-demo.mjs 60-121)                                       *)
THEOREM SentSwapsAlwaysCanWork == Spec => []SentSwapsCanWork
<1>1. Inv => SentSwapsCanWork
  <2> SUFFICES ASSUME Inv, NEW tx \in network, tx.awaited, Pending(tx.escrow), RealDex(tx.escrow)
               PROVE  /\ CanSpend(tx.escrow)
                      /\ SwapAccepted(order[tx.escrow].route, order[tx.escrow].inputMint)
    BY DEF SentSwapsCanWork
  <2> DEFINE e == tx.escrow
             p == script.program
  <2>1. TypeOK /\ Called /\ Backed
    BY DEF Inv
  <2>2. At("execute") /\ e = script.escrow
    BY <2>1 DEF Called, TxOf, Idle
  <2>3. Swapping /\ e \in Escrows /\ p \in Programs
    BY <2>1, <2>2, WhereItIs DEF Swapping, TypeOK
  <2>4. delegate[InputOf(e)] = e
    BY <2>1, <2>2, <2>3 DEF Backed, Allowed
  <2>5. balance[InputOf(e)] >= 1
    <3>1. InputOf(e) \in Accounts
      BY <2>3, InputAccounts
    <3>2. ForDelegate(InputOf(e)) = 1 /\ ForSetup(InputOf(e)) \in Nat
      BY <2>1, <2>3, <2>4, SetupNeeds, DemoAssumption DEF ForDelegate
    <3>3. /\ balance[InputOf(e)] \in Nat
          /\ balance[InputOf(e)] >= ForDelegate(InputOf(e)) + ForSetup(InputOf(e))
      BY <2>1, <3>1 DEF Backed, Stocked, TypeOK
    <3> QED
      BY <3>2, <3>3
  <2>6. order[e].route = RouteOf(p) /\ order[e].inputMint \in Mints
    BY <2>1, <2>3, ClientAssumption DEF TypeOK
  <2>7. RouteOf(p) \in {"mockDex", "raydium", "meteora", "orca"}
    BY DEF RouteOf
  <2>8. SwapAccepted(order[e].route, order[e].inputMint)
    BY <2>6, <2>7, OrcaAccepted, RaydiumAccepted, MeteoraAccepted DEF RealDex
  <2> QED
    BY <2>4, <2>5, <2>8 DEF CanSpend
<1> QED
  BY <1>1, DemosInvariant, PTL

(* A demo that reports its output made the swap itself.                       *)
(* (devnet-orca-demo.mjs 122-133)                                             *)
THEOREM FinishedAlwaysMeansSwapped == Spec => []FinishedMeansSwapped
<1>1. Inv => FinishedMeansSwapped
  BY DEF Inv, WonIsOver, PastSwap, Won, FinishedMeansSwapped
<1> QED
  BY <1>1, DemosInvariant, PTL

(* The escrows the generator leaves behind keep their allowance and tokens.   *)
(* (devnet-orca-live.mjs 37-57)                                               *)
THEOREM LeftEscrowsAlwaysStaySwappable == Spec => []LeftEscrowsStaySwappable
<1>1. Inv => LeftEscrowsStaySwappable
  <2> SUFFICES ASSUME Inv, script.program = "orcaLive", NEW e \in Escrows, Pending(e)
               PROVE  CanSpend(e)
    BY DEF LeftEscrowsStaySwappable
  <2>1. TypeOK /\ Backed /\ script.program # "orcaDemo"
    BY DEF Inv
  <2>2. delegate[InputOf(e)] = e /\ InputOf(e) \in Accounts
    BY <2>1, InputAccounts DEF Backed, Allowed
  <2>3. ForDelegate(InputOf(e)) = 1 /\ ForSetup(InputOf(e)) \in Nat
    BY <2>1, <2>2, SetupNeeds, DemoAssumption DEF ForDelegate
  <2>4. /\ balance[InputOf(e)] \in Nat
        /\ balance[InputOf(e)] >= ForDelegate(InputOf(e)) + ForSetup(InputOf(e))
    BY <2>1, <2>2 DEF Backed, Stocked, TypeOK
  <2> QED
    BY <2>2, <2>3, <2>4 DEF CanSpend
<1> QED
  BY <1>1, DemosInvariant, PTL

-----------------------------------------------------------------------------
(* Nothing a script waits for is missing. *)

(* The setup step after which a demo's pool is open; Orca's always is. *)
PoolAt(p) == IF p \in {"raydiumDemo", "meteoraDemo"} THEN 2 ELSE 0

(* From then on the pool is there. *)
PoolIsOpen ==
  Running /\ script.program # "mockDemo" /\ script.pc > PoolAt(script.program) => pool

(* Both scripts open their pool in their second step. *)
LEMMA SecondStepOpens ==
  /\ StepsOf("raydiumDemo")[2].opens
  /\ StepsOf("meteoraDemo")[2].opens
<1>1. RaydiumDemo[2] = Setup(0, 100, TRUE)
  BY DEF RaydiumDemo, SwapIt
<1>2. MeteoraDemo[2] = Setup(0, 0, TRUE)
  BY DEF MeteoraDemo, SwapIt
<1>3. \A brings, takes : Setup(brings, takes, TRUE).opens
  BY Zenon DEF Setup
<1>4. StepsOf("raydiumDemo") = RaydiumDemo /\ StepsOf("meteoraDemo") = MeteoraDemo
  BY DEF StepsOf
<1>5. RaydiumDemo[2].opens
  BY <1>1, <1>3, Zenon
<1>6. MeteoraDemo[2].opens
  BY <1>2, <1>3, Zenon
<1> QED
  BY <1>4, <1>5, <1>6, Zenon

(* Only setup steps and a new start touch the pool. *)
LEMMA NextKeepsPool ==
  ASSUME Inv, PoolIsOpen, [Next]_vars
  PROVE  PoolIsOpen'
<1>1. script.program \in Programs /\ script.pc \in Nat \ {0}
  BY DEF Inv, TypeOK
<1>2. CASE RunSetup
  <2>1. /\ At("setup")
        /\ Dies \/ (Advance /\ pool' = (pool \/ Steps[script.pc].opens))
    BY <1>2 DEF RunSetup
  <2>2. CASE Dies
    BY <2>2, Dying DEF PoolIsOpen, Inv
  <2>3. CASE Advance /\ pool' = (pool \/ Steps[script.pc].opens)
    <3>1. /\ Running /\ script'.pc = script.pc + 1 /\ script'.program = script.program
      BY <2>1, <2>3, Advancing DEF Inv, At, Running
    <3>2. CASE script.pc > PoolAt(script.program)
      BY <2>3, <3>1, <3>2 DEF PoolIsOpen
    <3>3. CASE /\ ~(script.pc > PoolAt(script.program)) /\ script.pc + 1 > PoolAt(script.program)
      <4>1. script.pc = 2 /\ script.program \in {"raydiumDemo", "meteoraDemo"}
        BY <1>1, <3>3 DEF PoolAt
      <4>2. Steps[script.pc].opens
        BY <4>1, SecondStepOpens DEF Steps
      <4> QED
        BY <2>3, <4>2 DEF PoolIsOpen
    <3>4. CASE ~(script.pc + 1 > PoolAt(script.program))
      BY <3>1, <3>4 DEF PoolIsOpen
    <3> QED
      BY <3>2, <3>3, <3>4
  <2> QED
    BY <2>1, <2>2, <2>3
<1>3. CASE StartAgain
  <2>1. /\ script'.pc = 1 /\ script'.program = script.program
        /\ pool' = (RouteOf(script.program) = "orca")
    BY <1>3 DEF StartAgain, Inv, TypeOK
  <2>2. CASE script.program \in {"raydiumDemo", "meteoraDemo"}
    BY <2>1, <2>2 DEF PoolIsOpen, PoolAt
  <2>3. CASE script.program \in {"orcaDemo", "orcaLive"}
    BY <2>1, <2>3 DEF PoolIsOpen, RouteOf
  <2>4. CASE script.program = "mockDemo"
    BY <2>1, <2>4 DEF PoolIsOpen
  <2> QED
    BY <1>1, <2>2, <2>3, <2>4, DemoAssumption
<1>4. ASSUME pool' = pool, script' = script
      PROVE  PoolIsOpen'
    BY <1>4 DEF PoolIsOpen, Running
<1>5. ASSUME pool' = pool, Dies
      PROVE  PoolIsOpen'
    BY <1>5, Dying DEF PoolIsOpen, Inv
<1>6. ASSUME pool' = pool, Advance, ~At("setup"), Running, script.pc <= Len(Steps)
      PROVE  PoolIsOpen'
  <2>1. /\ script'.pc = script.pc + 1 /\ script'.program = script.program
    BY <1>6, Advancing DEF Inv
  <2>2. script.program # "mockDemo" => script.pc > PoolAt(script.program)
    <3>1. SUFFICES ASSUME script.program \in {"raydiumDemo", "meteoraDemo"}, script.pc \in {1, 2}
                   PROVE  FALSE
      BY <1>1 DEF PoolAt
    <3>2. CASE script.program = "raydiumDemo"
      BY <1>6, <3>1, <3>2, RaydiumSteps DEF At, Running, Steps, StepsOf, SetsUp
    <3>3. CASE script.program = "meteoraDemo"
      BY <1>6, <3>1, <3>3, MeteoraSteps DEF At, Running, Steps, StepsOf, SetsUp
    <3> QED
      BY <3>1, <3>2, <3>3
  <2> QED
    BY <1>6, <2>1, <2>2 DEF PoolIsOpen
<1>7. ASSUME NEW what \in {"route", "initialize", "execute", "read"}, At(what)
      PROVE  ~At("setup") /\ Running /\ script.pc <= Len(Steps)
  BY <1>7 DEF At, Running
<1>8. CASE BuildRoute \/ Initialize \/ ReadResult
  <2>1. /\ At("route") \/ At("initialize") \/ At("read")
        /\ pool' = pool /\ (Advance \/ Dies)
    BY <1>8 DEF BuildRoute, Initialize, ReadResult
  <2> QED
    BY <1>5, <1>6, <1>7, <2>1
<1>9. CASE Executed \/ ExecuteThrew
  <2>1. At("execute")
    BY <1>9 DEF Executed, ExecuteThrew, Inv, Called, Idle
  <2>2. pool' = pool /\ (Advance \/ Dies)
    BY <1>9 DEF Executed, ExecuteThrew
  <2> QED
    BY <1>5, <1>6, <1>7, <2>1, <2>2
<1>10. CASE Finish
  <2>1. script'.standing = "finished"
    BY <1>10 DEF Finish, Inv, TypeOK
  <2> QED
    BY <2>1 DEF PoolIsOpen, Running
<1>11. CASE StepThrows
  BY <1>5, <1>11 DEF StepThrows
<1>12. CASE \/ Execute
            \/ \E c \in Clients : ClientStep(c) /\ UNCHANGED demoVars
            \/ \E tx \in network :
                 SwapLands(tx) \/ SwapRefused(tx) \/ (Expire(tx) /\ UNCHANGED demoVars)
            \/ \E e \in Escrows :
                 KeeperSwaps(e)
                   \/ ((topUpBuffer(e) \/ cleanupExpiredEscrow(e)) /\ UNCHANGED demoVars)
            \/ (NextSlot \/ CalmDown) /\ UNCHANGED demoVars
            \/ UNCHANGED vars
  <2>1. pool' = pool /\ script' = script
    BY <1>12 DEF Execute, SwapLands, SwapRefused, KeeperSwaps, Spent, demoVars, vars
  <2> QED
    BY <1>4, <2>1
<1> QED
  BY <1>2, <1>3, <1>8, <1>9, <1>10, <1>11, <1>12 DEF Next, DriverStep

(* A script waits for nothing that does not come: its setup steps find the    *)
(* tokens they put into the pool, its route the pool, its escrow an address   *)
(* still free.  What ends a script is a failing node or network, or a swap    *)
(* that is refused, and nothing in the order of its own steps, however often  *)
(* it was started before.                                                     *)
(* (devnet-raydium-demo.mjs 43-140, devnet-meteora-demo.mjs 50-138,           *)
(* devnet-orca-demo.mjs 60-121, devnet-orca-live.mjs 37-57)                   *)
NothingIsMissing ==
  /\ At("setup") => balance[InputOf(script.escrow)] >= Steps[script.pc].takes
  /\ At("route") => pool
  /\ At("initialize") => account[script.escrow].status = "fresh"

THEOREM ScriptsFindWhatTheyNeed == Spec => []NothingIsMissing
<1>1. Init => PoolIsOpen
  <2> SUFFICES ASSUME Init
               PROVE  PoolIsOpen
    OBVIOUS
  <2>1. script.pc = 1 /\ script.program \in Programs /\ pool = (RouteOf(script.program) = "orca")
    BY DEF Init
  <2>2. script.program \in {"orcaDemo", "orcaLive"} => pool
    BY <2>1 DEF RouteOf
  <2>3. CASE script.program \in {"raydiumDemo", "meteoraDemo"}
    BY <2>1, <2>3 DEF PoolIsOpen, PoolAt
  <2>4. CASE script.program \in {"orcaDemo", "orcaLive"}
    BY <2>2, <2>4 DEF PoolIsOpen
  <2>5. CASE script.program = "mockDemo"
    BY <2>5 DEF PoolIsOpen
  <2> QED
    BY <2>1, <2>3, <2>4, <2>5, DemoAssumption
<1>2. Inv /\ PoolIsOpen /\ [Next]_vars => PoolIsOpen'
  BY NextKeepsPool
<1>3. Inv /\ PoolIsOpen => NothingIsMissing
  <2> SUFFICES ASSUME Inv, PoolIsOpen
               PROVE  NothingIsMissing
    OBVIOUS
  <2> DEFINE p == script.program
             i == script.pc
  <2>0. TypeOK /\ p \in Programs /\ script.escrow \in Escrows
    BY DEF Inv, TypeOK
  <2>1. At("setup") => balance[InputOf(script.escrow)] >= Steps[i].takes
    BY SetupFinds
  <2>2. ASSUME At("route")
        PROVE  pool
    <3>1. /\ Running /\ i \in 1 .. Len(Steps) /\ Steps[i].do = "route" /\ i < InitAt(p)
      BY <2>0, <2>2, WhereItIs
    <3>2. ASSUME p = "mockDemo"
          PROVE  FALSE
      <4>1. Steps = MockDemo
        BY <3>2 DEF Steps, StepsOf
      <4>2. i \in {1, 2}
        BY <3>1, <3>2 DEF InitAt
      <4> QED
        BY <3>1, <4>1, <4>2, MockSteps DEF SetsUp
    <3>3. i > PoolAt(p)
      <4>1. SUFFICES ASSUME p \in {"raydiumDemo", "meteoraDemo"}, i \in {1, 2}
                     PROVE  FALSE
        BY <3>1 DEF PoolAt
      <4>2. CASE p = "raydiumDemo"
        BY <3>1, <4>1, <4>2, RaydiumSteps DEF Steps, StepsOf, SetsUp
      <4>3. CASE p = "meteoraDemo"
        BY <3>1, <4>1, <4>3, MeteoraSteps DEF Steps, StepsOf, SetsUp
      <4> QED
        BY <4>1, <4>2, <4>3
    <3> QED
      BY <3>1, <3>2, <3>3 DEF PoolIsOpen
  <2>3. ASSUME At("initialize")
        PROVE  account[script.escrow].status = "fresh"
    <3>1. Running /\ i = InitAt(p) /\ i \in Nat
      BY <2>0, <2>3, WhereItIs DEF TypeOK
    <3> QED
      BY <3>1 DEF Inv, FreshAhead, Preparing
  <2> QED
    BY <2>1, <2>2, <2>3 DEF NothingIsMissing
<1> QED
  BY <1>1, <1>2, <1>3, DemosInvariant, PTL DEF Spec

=============================================================================
