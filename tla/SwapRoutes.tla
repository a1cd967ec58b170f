----------------------------- MODULE SwapRoutes -----------------------------
(***************************************************************************)
(* The swap builders of the SDK and the keeper, and the relay they build   *)
(* for.  A builder turns an escrow into the account list of one DEX        *)
(* instruction; execute_swap hands exactly that list to the DEX, which     *)
(* reads it by position.  Accounts are named by the role they play; a pool *)
(* trades the mints "A" and "B".  What each DEX program and its SDK expect *)
(* is external, modelled from how the builders and the relay use them.     *)
(***************************************************************************)
EXTENDS Naturals, Sequences

Routes == {"orca", "raydium", "meteora", "mockDex"}

Mints == {"A", "B"}

OtherMint(mint) == CHOOSE m \in Mints : m # mint

Meta(pubkey) == [pubkey |-> pubkey, isSigner |-> FALSE]

Signer(pubkey) == [pubkey |-> pubkey, isSigner |-> TRUE]

Keys(metas) == {metas[i].pubkey : i \in DOMAIN metas}

(* A PDA has no key to sign the outer transaction with. *)
EscrowUnsigned(metas) ==
  [i \in DOMAIN metas |->
     IF metas[i].pubkey = "escrow" THEN Meta("escrow") ELSE metas[i]]

-----------------------------------------------------------------------------
(* The instructions the DEX SDKs build. *)
WhirlpoolSwap(authority, ownerA, vaultA, ownerB, vaultB) ==
  <<Meta("tokenProgram"), Signer(authority), Meta("pool"), Meta(ownerA), Meta(vaultA),
    Meta(ownerB), Meta(vaultB), Meta("tickArrays"), Meta("oracle")>>

makeSwapCpmmBaseIn(payer, input, output, inputVault, outputVault, inputMint, outputMint) ==
  <<Signer(payer), Meta("poolAuthority"), Meta("config"), Meta("pool"),
    Meta(input), Meta(output), Meta(inputVault), Meta(outputVault),
    Meta("tokenProgram"), Meta("tokenProgram"), Meta(inputMint), Meta(outputMint),
    Meta("observation")>>

DlmmSwap(user, userIn, userOut) ==
  <<Meta("pool"), Meta("vaultA"), Meta("vaultB"), Meta(userIn), Meta(userOut),
    Meta("A"), Meta("B"), Meta("oracle"), Signer(user), Meta("tokenProgram"),
    Meta("binArrays")>>

-----------------------------------------------------------------------------
(* The builders: the accounts to pass for an escrow that sells inputMint. *)
OrcaAccounts(inputMint) ==
  LET aToB == inputMint = "A"
      ownerA == IF aToB THEN "input" ELSE "destination"
      ownerB == IF aToB THEN "destination" ELSE "input"
  IN EscrowUnsigned(WhirlpoolSwap("escrow", ownerA, "vaultA", ownerB, "vaultB"))

RaydiumAccounts(inputMint) ==
  LET aToB == inputMint = "A"
      inputVault == IF aToB THEN "vaultA" ELSE "vaultB"
      outputVault == IF aToB THEN "vaultB" ELSE "vaultA"
  IN EscrowUnsigned(makeSwapCpmmBaseIn("escrow", "input", "destination", inputVault,
                                       outputVault, inputMint, OtherMint(inputMint)))

MeteoraAccounts(inputMint) ==
  LET built == DlmmSwap("escrow", "escrowInputAta", "escrowOutputAta")
      replaced(pubkey) == CASE pubkey = "escrowInputAta" -> "input"
                            [] pubkey = "escrowOutputAta" -> "destination"
                            [] OTHER -> pubkey
  IN EscrowUnsigned([i \in DOMAIN built |-> [built[i] EXCEPT !.pubkey = replaced(@)]])

MockAccounts(inputMint) ==
  <<Meta(inputMint), Meta(OtherMint(inputMint)), Meta("mintAuthority")>>

remainingAccounts(route, inputMint) ==
  CASE route = "orca" -> OrcaAccounts(inputMint)
    [] route = "raydium" -> RaydiumAccounts(inputMint)
    [] route = "meteora" -> MeteoraAccounts(inputMint)
    [] route = "mockDex" -> MockAccounts(inputMint)

-----------------------------------------------------------------------------
(* The relay in execute_swap. *)
Signable(metas) == \A i \in DOMAIN metas : ~metas[i].isSigner

RequiredSwapAccounts == {"input", "destination", "tokenProgram"}

CpiMetas(metas) ==
  [i \in DOMAIN metas |->
     [metas[i] EXCEPT !.isSigner = @ \/ metas[i].pubkey = "escrow"]]

(* What a pool program asks of the accounts at the positions it reads: the  *)
(* authority signs and may spend the source, and each side meets the vault  *)
(* of its own mint.  Only the escrow's input account is delegated to it.    *)
MintOf(account, inputMint) ==
  CASE account = "input" -> inputMint
    [] account = "destination" -> OtherMint(inputMint)
    [] account = "vaultA" -> "A"
    [] account = "vaultB" -> "B"
    [] OTHER -> "none"

Trades(authority, source, destination, sourceVault, destinationVault, inputMint) ==
  /\ authority = Signer("escrow")
  /\ source.pubkey = "input"
  /\ MintOf(sourceVault.pubkey, inputMint) = inputMint
  /\ MintOf(destination.pubkey, inputMint) = OtherMint(inputMint)
  /\ MintOf(destinationVault.pubkey, inputMint) = OtherMint(inputMint)

WhirlpoolAccepts(metas, inputMint) ==
  LET aToB == inputMint = "A"
  IN /\ Len(metas) = 9
     /\ IF aToB THEN Trades(metas[2], metas[4], metas[6], metas[5], metas[7], inputMint)
                ELSE Trades(metas[2], metas[6], metas[4], metas[7], metas[5], inputMint)

CpmmAccepts(metas, inputMint) ==
  /\ Len(metas) = 13
  /\ Trades(metas[1], metas[5], metas[6], metas[7], metas[8], inputMint)
  /\ metas[11].pubkey = inputMint /\ metas[12].pubkey = OtherMint(inputMint)

DlmmAccepts(metas, inputMint) ==
  LET sourceVault == IF inputMint = "A" THEN metas[2] ELSE metas[3]
      destinationVault == IF inputMint = "A" THEN metas[3] ELSE metas[2]
  IN /\ Len(metas) = 11
     /\ Trades(metas[9], metas[4], metas[5], sourceVault, destinationVault, inputMint)

MockDexAccepts(metas, inputMint) ==
  /\ Len(metas) = 7
  /\ metas[1].pubkey = "input" /\ metas[2].pubkey = "destination"
  /\ metas[3] = Signer("escrow") /\ metas[4].pubkey = "tokenProgram"
  /\ metas[5].pubkey = inputMint /\ metas[6].pubkey = OtherMint(inputMint)
  /\ metas[7].pubkey = "mintAuthority"

(* The whole relay: the outer transaction can be signed, the three accounts *)
(* execute_swap insists on are there, and the DEX takes what it is handed.  *)
SwapAccepted(route, inputMint) ==
  LET metas == remainingAccounts(route, inputMint)
  IN /\ Signable(metas)
     /\ RequiredSwapAccounts \subseteq Keys(metas)
     /\ CASE route = "orca" -> WhirlpoolAccepts(CpiMetas(metas), inputMint)
          [] route = "raydium" -> CpmmAccepts(CpiMetas(metas), inputMint)
          [] route = "meteora" -> DlmmAccepts(CpiMetas(metas), inputMint)
          [] route = "mockDex" -> MockDexAccepts(CpiMetas(metas), inputMint)

=============================================================================
