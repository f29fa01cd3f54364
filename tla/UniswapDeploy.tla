---------------------------- MODULE UniswapDeploy ----------------------------
(***************************************************************************)
(* The UniswapV3 deployment of the load test (uniswapv3.go,                *)
(* deployUniswapV3 and its helpers): fifteen steps run in order, each      *)
(* either deploying or instantiating one contract and polling it until a   *)
(* call succeeds (deployOrInstantiateContract), or reading owner state and *)
(* sending an owner-only transaction when it differs (enableOneBPFeeTier,  *)
(* setFactoryOwner, transferProxyAdminOwnership).  Any error returns from  *)
(* the whole deployment; the operator may run it again, passing as known   *)
(* addresses the ones the failed run printed.                              *)
(*                                                                         *)
(* The chain is the environment: the deployer's transactions are sent and  *)
(* never awaited; they wait in the pool in nonce order and are mined one   *)
(* by one, and an owner-only call from a non-owner reverts silently when   *)
(* mined.  With ForceGasLimit FALSE the binding estimates gas against the  *)
(* latest state before sending, so a transaction that would revert makes   *)
(* the send itself fail.                                                   *)
(***************************************************************************)
EXTENDS Naturals, Sequences

CONSTANTS
    Deployer,       \* the load test's key: the sender of every transaction
    Owner,          \* ownerAddress: who is to own the Factory and ProxyAdmin
    GasLimitSet,    \* values of "tops.GasLimit is set" (no gas estimation)
    MaxRuns,        \* bound on the runs of deployUniswapV3
    None

ASSUME Deployer # Owner /\ GasLimitSet \subseteq BOOLEAN /\ MaxRuns \in Nat \ {0}

\* The steps of deployUniswapV3 in program order (its comments 1-15).
Steps == <<"FactoryV3", "FeeTier", "Multicall", "ProxyAdmin", "TickLens",
           "WETH9", "NFTDescriptor", "TransparentUpgradeableProxy",
           "NonfungiblePositionManager", "Migrator", "FactoryOwner",
           "Staker", "QuoterV2", "SwapRouter02", "ProxyAdminOwner">>

Done == Len(Steps) + 1

\* pc after deployUniswapV3 returned an error.
Failed == 0

Contract == {Steps[i] : i \in 1..Len(Steps)} \ {"FeeTier", "FactoryOwner", "ProxyAdminOwner"}

\* A deployment's address is fixed by the sender's nonce when it is sent;
\* the run that sent it tells two deployments of one contract apart.
Addr == Contract \X (1..MaxRuns)

VARIABLES
    mined,      \* addresses whose deployment has been mined
    pool,       \* the deployer's sent, unmined transactions in nonce order
    owner,      \* owner[a]: owner of a Factory/ProxyAdmin, admin of a proxy
    feeOn,      \* feeOn[a]: factory a has the 1bp fee tier enabled
    wiring,     \* wiring[a]: the contract addresses a's constructor was given
    run,        \* the current run of deployUniswapV3
    pc,         \* its step, or Done (returned nil), or Failed
    waiting,    \* inside blockUntilSuccessful, polling the step's contract
    config,     \* config[n]: the address the run holds for contract n
    known,      \* knownAddresses[n] given to this run, or None
    gasLimit    \* configureTransactOpts forced a gas limit on tops

chainVars == <<mined, pool, owner, feeOn, wiring>>
vars == <<mined, pool, owner, feeOn, wiring, run, pc, waiting, config, known, gasLimit>>

Step == Steps[pc]

NoAddrs == [n \in Contract |-> None]

Send(tx) == pool' = Append(pool, tx)

-----------------------------------------------------------------------------
(* The chain.                                                              *)

\* onlyOwner: the sender is the contract's current (mined) owner.
OwnerCallOK(a) == a \in mined /\ owner[a] = Deployer

\* The first pooled transaction is mined; an owner-only call that fails
\* its require reverts and changes nothing.
Mine ==
    /\ pool # <<>>
    /\ LET tx == Head(pool) IN
       CASE tx.kind = "deploy" ->
              /\ mined' = mined \cup {tx.to}
              /\ owner' = [owner EXCEPT ![tx.to] = tx.admin]
              /\ wiring' = [wiring EXCEPT ![tx.to] = tx.args]
              /\ UNCHANGED feeOn
         [] tx.kind = "enableFee" ->
              /\ feeOn' = [feeOn EXCEPT ![tx.to] = @ \/ OwnerCallOK(tx.to)]
              /\ UNCHANGED <<mined, owner, wiring, gasLimit>>
         [] tx.kind = "setOwner" ->
              /\ owner' = IF OwnerCallOK(tx.to) THEN [owner EXCEPT ![tx.to] = tx.new] ELSE owner
              /\ UNCHANGED <<mined, feeOn, wiring, gasLimit>>
         [] OTHER ->
              UNCHANGED <<mined, owner, feeOn, wiring, gasLimit>>
    /\ pool' = Tail(pool)
    /\ UNCHANGED <<run, pc, waiting, config, known, gasLimit>>

-----------------------------------------------------------------------------
(* The deployment.                                                         *)

\* Variant of InitialOwner that makes the deployer (tops.From) the proxy's
\* admin, as the comment of the proxy's readiness check assumes.
InitialOwnerDeployerAdmin(n) ==
    CASE n \in {"FactoryV3", "ProxyAdmin", "TransparentUpgradeableProxy"} -> Deployer
      [] OTHER -> None

\* Who a fresh deployment makes owner or admin: the deployer for the
\* Ownable Factory and ProxyAdmin; for the proxy, the admin_ argument,
\* which is config.ProxyAdmin.Address.
InitialOwner(n) ==
    CASE n \in {"FactoryV3", "ProxyAdmin"} -> Deployer
      [] n = "TransparentUpgradeableProxy" -> config["ProxyAdmin"]
      [] OTHER -> None

\* The contracts whose addresses each deployFunc passes to the constructor
\* (the Staker's incentive limits, the descriptor's "ETH" label and the
\* empty V2 factory address are constants, left out).
ConstructorDeps ==
    [n \in Contract |->
        CASE n = "NFTDescriptor" -> {"WETH9"}
          [] n = "TransparentUpgradeableProxy" -> {"NFTDescriptor", "ProxyAdmin"}
          [] n = "NonfungiblePositionManager" ->
                {"FactoryV3", "WETH9", "TransparentUpgradeableProxy"}
          [] n = "Migrator" -> {"FactoryV3", "WETH9", "NonfungiblePositionManager"}
          [] n = "Staker" -> {"FactoryV3", "NonfungiblePositionManager"}
          [] n = "QuoterV2" -> {"FactoryV3", "WETH9"}
          [] n = "SwapRouter02" -> {"FactoryV3", "NonfungiblePositionManager", "WETH9"}
          [] OTHER -> {}]

\* Variant of ConstructorArgs whose closures read knownAddresses rather
\* than the addresses of the current run.
ConstructorArgsKnown(n) == [d \in ConstructorDeps[n] |-> known[d]]

\* The closures read config.<dep>.Address when the deployment is sent.
ConstructorArgs(n) == [d \in ConstructorDeps[n] |-> config[d]]

\* Gas estimation, when it happens, fails for a call that would revert.
Estimates(ok) == gasLimit \/ ok

\* A send: with a forced gas limit, or when the estimate finds no revert,
\* the transaction is pooled and the step is done; otherwise the binding
\* returns the estimate's error and deployUniswapV3 returns it.
SendOrFail(ok, tx) ==
    IF Estimates(ok) THEN Send(tx) /\ pc' = pc + 1
                     ELSE UNCHANGED pool /\ pc' = Failed

\* Variant of DeployOrInstantiate that records the address of the
\* following deployment rather than the one it sends.
DeployOrInstantiateNextAddr ==
    /\ pc \in 1..Len(Steps) /\ Step \in Contract /\ ~waiting
    /\ IF known[Step] = None
       THEN /\ config' = [config EXCEPT ![Step] = <<Step, run + 1>>]
            /\ Send([kind |-> "deploy", to |-> <<Step, run + 1>>, admin |-> InitialOwner(Step),
                        args |-> ConstructorArgs(Step)])
       ELSE /\ config' = [config EXCEPT ![Step] = known[Step]]
            /\ UNCHANGED pool
    /\ waiting' = TRUE
    /\ UNCHANGED <<mined, owner, feeOn, wiring, run, pc, known, gasLimit>>

\* deployOrInstantiateContract, first half: deploy when the known address
\* is empty, otherwise take the known address (no call is made).
DeployOrInstantiate ==
    /\ pc \in 1..Len(Steps) /\ Step \in Contract /\ ~waiting
    /\ IF known[Step] = None
       THEN /\ config' = [config EXCEPT ![Step] = <<Step, run>>]
            /\ Send([kind |-> "deploy", to |-> <<Step, run>>, admin |-> InitialOwner(Step),
                        args |-> ConstructorArgs(Step)])
       ELSE /\ config' = [config EXCEPT ![Step] = known[Step]]
            /\ UNCHANGED pool
    /\ waiting' = TRUE
    /\ UNCHANGED <<mined, owner, feeOn, wiring, run, pc, known, gasLimit>>

\* Variant of CallSucceeds in which TickLens is probed with
\* GetPopulatedTicksInWord, a call that reverts while no pool exists.
CallSucceedsProbeTickLens(n, a) ==
    IF n = "TickLens" THEN FALSE ELSE a \in mined

\* The step's callFunc: a view call succeeds once code is at the address.
\* TickLens's returns nil without a call.  The proxy's sends Admin(tops), a
\* transaction, and only when the proxy was deployed by this run; the
\* proxy's admin() answers only its admin and otherwise falls through to
\* the implementation, which has no such function.
CallSucceeds(n, a) ==
    CASE n = "TickLens" -> TRUE
      [] n = "TransparentUpgradeableProxy" /\ known[n] = None ->
            Estimates(a \in mined /\ owner[a] = Deployer)
      [] n = "TransparentUpgradeableProxy" -> TRUE
      [] OTHER -> a \in mined

\* deployOrInstantiateContract, second half: blockUntilSuccessful returns
\* once callFunc succeeds; a failing poll is retried (a stutter here).
Ready ==
    /\ pc \in 1..Len(Steps) /\ Step \in Contract /\ waiting
    /\ CallSucceeds(Step, config[Step])
    /\ IF Step = "TransparentUpgradeableProxy" /\ known[Step] = None
       THEN Send([kind |-> "admin", to |-> config[Step]])
       ELSE UNCHANGED pool
    /\ waiting' = FALSE
    /\ pc' = pc + 1
    /\ UNCHANGED <<mined, owner, feeOn, wiring, run, config, known, gasLimit>>

\* enableOneBPFeeTier: skip when FeeAmountTickSpacing(100) is already 1.
EnableOneBPFeeTier ==
    LET f == config["FactoryV3"] IN
    /\ pc \in 1..Len(Steps) /\ Step = "FeeTier"
    /\ IF feeOn[f]
       THEN UNCHANGED pool /\ pc' = pc + 1
       ELSE SendOrFail(OwnerCallOK(f), [kind |-> "enableFee", to |-> f])
    /\ UNCHANGED <<mined, owner, feeOn, wiring, run, waiting, config, known, gasLimit>>

\* Variant of TransferOwnershipTo that skips when the owner differs.
TransferOwnershipToInverted(a, ownerStep) ==
    /\ pc \in 1..Len(Steps) /\ Step = ownerStep
    /\ IF owner[a] # Owner
       THEN UNCHANGED pool /\ pc' = pc + 1
       ELSE SendOrFail(OwnerCallOK(a), [kind |-> "setOwner", to |-> a, new |-> Owner])
    /\ UNCHANGED <<mined, owner, feeOn, wiring, run, waiting, config, known, gasLimit>>

\* setFactoryOwner and transferProxyAdminOwnership: read Owner(), and
\* send SetOwner / TransferOwnership only when it is not ownerAddress.
TransferOwnershipTo(a, ownerStep) ==
    /\ pc \in 1..Len(Steps) /\ Step = ownerStep
    /\ IF owner[a] = Owner
       THEN UNCHANGED pool /\ pc' = pc + 1
       ELSE SendOrFail(OwnerCallOK(a), [kind |-> "setOwner", to |-> a, new |-> Owner])
    /\ UNCHANGED <<mined, owner, feeOn, wiring, run, waiting, config, known, gasLimit>>

SetFactoryOwner == TransferOwnershipTo(config["FactoryV3"], "FactoryOwner")

TransferProxyAdminOwnership == TransferOwnershipTo(config["ProxyAdmin"], "ProxyAdminOwner")

\* Any step's RPC (a read, a send, the deployment, the poll's timeout)
\* returns an error, and deployUniswapV3 returns it.  A send whose gas
\* estimation fails ends here too.
Fail ==
    /\ pc \in 1..Len(Steps)
    /\ pc' = Failed
    /\ waiting' = FALSE
    /\ UNCHANGED <<mined, pool, owner, feeOn, wiring, run, config, known, gasLimit>>

\* The caller (outside this repository) runs the deployment again, either
\* from scratch or passing every address the previous run printed; after
\* a failed run those are the contracts it got through.
Rerun ==
    /\ pc \in {Failed, Done}
    /\ run < MaxRuns
    /\ run' = run + 1
    /\ pc' = 1
    /\ known' \in {NoAddrs, config}
    /\ config' = NoAddrs
    /\ UNCHANGED <<mined, pool, owner, feeOn, wiring, waiting, gasLimit>>

Init ==
    /\ mined = {}
    /\ pool = <<>>
    /\ owner = [a \in Addr |-> None]
    /\ feeOn = [a \in Addr |-> FALSE]
    /\ wiring = [a \in Addr |-> <<>>]
    /\ run = 1
    /\ pc = 1
    /\ waiting = FALSE
    /\ config = NoAddrs
    /\ known = NoAddrs
    /\ gasLimit \in GasLimitSet

Progress ==
    \/ DeployOrInstantiate
    \/ Ready
    \/ EnableOneBPFeeTier
    \/ SetFactoryOwner
    \/ TransferProxyAdminOwnership

Next == Mine \/ Progress \/ Fail \/ Rerun

\* The chain keeps mining and the program keeps running; RPC errors and
\* reruns are not assumed to happen.
Fairness == WF_vars(Mine) /\ WF_vars(Progress)

Spec == Init /\ [][Next]_vars /\ Fairness

-----------------------------------------------------------------------------

TypeOK ==
    /\ mined \subseteq Addr
    /\ owner \in [Addr -> {Deployer, Owner, None} \cup Addr]
    /\ feeOn \in [Addr -> BOOLEAN]
    /\ \A a \in Addr : DOMAIN wiring[a] \subseteq Contract
    /\ pc \in 0..Done
    /\ gasLimit \in BOOLEAN
    /\ config \in [Contract -> Addr \cup {None}]
    /\ known \in [Contract -> Addr \cup {None}]

\* What a successful deployUniswapV3 leaves once its transactions are
\* mined, whatever runs failed before it and whatever their transactions
\* still pending did: every address it returns holds a contract, the
\* Factory and the ProxyAdmin belong to ownerAddress, the proxy is
\* administered by the ProxyAdmin returned with it (so ownerAddress
\* controls upgrades), and the Factory has the 1bp fee tier.
DoneMeansDeployed ==
    (pc = Done /\ pool = <<>>) =>
        /\ \A n \in Contract : config[n] \in mined
        /\ owner[config["FactoryV3"]] = Owner
        /\ owner[config["ProxyAdmin"]] = Owner
        /\ owner[config["TransparentUpgradeableProxy"]] = config["ProxyAdmin"]
        /\ feeOn[config["FactoryV3"]]

\* The contracts a successful run returns are wired to each other: every
\* one was constructed with the addresses returned for its dependencies,
\* also when the run instantiated some of them from an earlier run's
\* addresses and deployed the rest afresh.
DoneMeansWired ==
    (pc = Done /\ pool = <<>>) =>
        \A n \in Contract : wiring[config[n]] = [d \in ConstructorDeps[n] |-> config[d]]

\* Every run of deployUniswapV3, from scratch or with the previous run's
\* addresses, returns, successfully or with an error: no
\* blockUntilSuccessful polls forever.
RunsReturn == (pc = 1) ~> (pc \in {Done, Failed})

\* The same, for the load test run with a forced gas limit.
ForcedRunsReturn == gasLimit => RunsReturn

=============================================================================
