----------------------------- MODULE UniswapPool -----------------------------
(***************************************************************************)
(* The UniswapV3 load test after deployment (uniswapv3.go): the two        *)
(* Swapper tokens are deployed and approve the position manager and the    *)
(* router (deploySwapperContract, approveSwapperSpendingsByUniswap); the   *)
(* TokenA-TokenB pool is created, its address polled for, and full-range   *)
(* liquidity minted (createPool); then loadTestUniswapV3 swaps, once per   *)
(* call (swapTokenBForTokenA).                                             *)
(*                                                                         *)
(* As in UniswapDeploy the chain is the environment: transactions are      *)
(* sent, never awaited, mined in nonce order, and revert silently when a   *)
(* require of the contract fails; with ForceGasLimit FALSE the failed gas  *)
(* estimate turns a reverting send into an error of the call.  The pool's *)
(* key is sorted by address, and whether TokenA's address is below         *)
(* TokenB's is fixed by deployment nonces, not by the code: Init chooses.  *)
(***************************************************************************)
EXTENDS Integers, Sequences

CONSTANTS
    AddressOrders,  \* values of "TokenA's address is below TokenB's"
    Fees,           \* poolConfig.Fees: fee tiers the pool may use
    Reserves,       \* poolConfig.ReserveA / ReserveB values
    BlockTimes,     \* timestamps of the latest block when liquidity is minted
    Q96,            \* stands for 2^96, the fixed-point unit of sqrtPriceX96
    GasLimitSet,    \* values of "tops.GasLimit is set" (no gas estimation)
    MaxSwaps,       \* bound on the loadTestUniswapV3 calls
    None

\* uniswapv3.go constants, and the factory's fee-to-spacing table: 100 is
\* enabled by enableOneBPFeeTier with ONE_BP_TICK_SPACING.
MAX_TICK == 887272
MIN_TICK == -887272
TickSpacingOf == [f \in {100, 500, 3000, 10000} |->
                    CASE f = 100 -> 1 [] f = 500 -> 10 [] f = 3000 -> 60 [] f = 10000 -> 200]

\* The mint's hard-coded Deadline (2025-10-03).
MintDeadline == 1759474606

\* sqrt(1.0001) * 2^96, the DEBUG constant, at the model's precision.
DebugSqrtPriceX96 == Q96

ASSUME /\ AddressOrders \subseteq BOOLEAN /\ Fees \subseteq DOMAIN TickSpacingOf /\ Reserves \subseteq Nat
       /\ BlockTimes \subseteq Nat /\ Q96 \in Nat \ {0}
       /\ GasLimitSet \subseteq BOOLEAN /\ MaxSwaps \in Nat

Token == {"TokenA", "TokenB"}
Spender == {"NonfungiblePositionManager", "SwapRouter02"}

VARIABLES
    sorted,     \* TokenA's address is below TokenB's
    fee, reserveA, reserveB, now,   \* poolConfig and the block time
    gasLimit,   \* configureTransactOpts forced a gas limit on tops
    txs,        \* sent, unmined transactions in nonce order
    tokens,     \* Swapper tokens whose deployment is mined
    allowance,  \* allowance[t]: spenders token t has approved
    poolPrice,  \* sqrtPriceX96 the pool was initialized with, or None
    liquidity,  \* full-range positions minted into the pool
    calls,      \* loadTestUniswapV3 calls made
    swapsSent, swapsDone,  \* swap transactions sent, and executed
    pc, waiting

cfgVars == <<sorted, fee, reserveA, reserveB, now, gasLimit>>
chainVars == <<txs, tokens, allowance, poolPrice, liquidity, swapsDone>>
vars == <<cfgVars, chainVars, calls, swapsSent, pc, waiting>>

\* Go's big.Int.Sqrt: the floor of the square root.
ISqrt(n) == CHOOSE r \in 0..n : r * r <= n /\ (r + 1) * (r + 1) > n

\* computeSqrtPriceX96: each reserve's square root is floored before the
\* quotient is taken.
ComputeSqrtPriceX96(a, b) == (ISqrt(b) * Q96) \div ISqrt(a)

\* Variant of TickRange that spans MIN_TICK..MAX_TICK unrounded.
TickRangeUnrounded(spacing) == [lower |-> -MAX_TICK, upper |-> MAX_TICK]

\* tickUpper = (MAX_TICK / tickSpacing) * tickSpacing; tickLower = -tickUpper.
TickRange(spacing) ==
    LET upper == (MAX_TICK \div spacing) * spacing
    IN  [lower |-> -upper, upper |-> upper]

\* A pool key's tokens are ordered by address (require(token0 < token1)
\* of PoolInitializer and PoolAddress.computeAddress).
Below(x, y) == IF sorted THEN <<x, y>> = <<"TokenA", "TokenB">>
                         ELSE <<x, y>> = <<"TokenB", "TokenA">>

Send(tx) == txs' = Append(txs, tx)

Estimates(ok) == gasLimit \/ ok

\* A send: with a forced gas limit, or when the estimate finds no revert,
\* the transaction is pooled and the code goes on at next; otherwise the
\* binding returns the estimate's error and the function returns it.
SendOrFail(ok, tx, next) ==
    IF Estimates(ok) THEN Send(tx) /\ pc' = next
                     ELSE UNCHANGED txs /\ pc' = "Failed"

-----------------------------------------------------------------------------
(* The chain: what each transaction does when mined.                       *)

CreateOK(tx) == Below(tx.token0, tx.token1)

\* NonfungiblePositionManager.mint: checkDeadline, the pool key, the
\* pool's tick checks, and transferFrom of both tokens by the manager.
MintOK(tx) ==
    /\ now <= tx.deadline
    /\ Below(tx.token0, tx.token1)
    /\ poolPrice # None
    /\ MIN_TICK <= tx.lower /\ tx.lower < tx.upper /\ tx.upper <= MAX_TICK
    /\ tx.lower % TickSpacingOf[fee] = 0 /\ tx.upper % TickSpacingOf[fee] = 0
    /\ \A t \in {tx.token0, tx.token1} : "NonfungiblePositionManager" \in allowance[t]

\* SwapRouter02.exactInputSingle: the pool of (tokenIn, tokenOut) must
\* exist, hold liquidity, and the router may spend tokenIn.
SwapOK(tx) ==
    /\ Below(tx.tokenIn, tx.tokenOut) \/ Below(tx.tokenOut, tx.tokenIn)
    /\ liquidity > 0
    /\ "SwapRouter02" \in allowance[tx.tokenIn]

Mine ==
    /\ txs # <<>>
    /\ LET tx == Head(txs) IN
       /\ tokens' = IF tx.kind = "deploy" THEN tokens \cup {tx.token} ELSE tokens
       /\ allowance' = IF tx.kind = "approve"
                       THEN [allowance EXCEPT ![tx.token] = @ \cup {tx.spender}]
                       ELSE allowance
       /\ poolPrice' = IF tx.kind = "create" /\ CreateOK(tx) /\ poolPrice = None
                       THEN tx.price ELSE poolPrice
       /\ liquidity' = IF tx.kind = "mint" /\ MintOK(tx) THEN liquidity + 1 ELSE liquidity
       /\ swapsDone' = IF tx.kind = "swap" /\ SwapOK(tx) THEN swapsDone + 1 ELSE swapsDone
    /\ txs' = Tail(txs)
    /\ UNCHANGED <<cfgVars, calls, swapsSent, pc, waiting>>

-----------------------------------------------------------------------------
(* The load test.                                                          *)

\* deploySwapperContract: deploy the token (a fresh deployment).
DeploySwapper(t) ==
    /\ pc = t /\ ~waiting
    /\ Send([kind |-> "deploy", token |-> t])
    /\ waiting' = TRUE
    /\ UNCHANGED <<cfgVars, tokens, allowance, poolPrice, liquidity, swapsDone, calls, swapsSent, pc>>

\* Its callFunc, approveSwapperSpendingsByUniswap: Name() succeeds once
\* the token is mined, then Approve for the manager and the router.
ApproveSwapperSpendings(t, next) ==
    /\ pc = t /\ waiting
    /\ t \in tokens
    /\ txs' = txs \o <<[kind |-> "approve", token |-> t, spender |-> "NonfungiblePositionManager"],
                       [kind |-> "approve", token |-> t, spender |-> "SwapRouter02"]>>
    /\ waiting' = FALSE
    /\ pc' = next
    /\ UNCHANGED <<cfgVars, tokens, allowance, poolPrice, liquidity, swapsDone, calls, swapsSent>>

\* createPool, first call: the price is computed and then overwritten by
\* the DEBUG constant; computeSqrtPriceX96 panics dividing by a zero root.
CreateAndInitializePool ==
    /\ pc = "Create"
    /\ IF ISqrt(reserveA) = 0
       THEN /\ pc' = "Panicked"
            /\ UNCHANGED txs
       ELSE LET tx == [kind |-> "create", token0 |-> "TokenA", token1 |-> "TokenB",
                       price |-> DebugSqrtPriceX96]
            IN  SendOrFail(CreateOK(tx), tx, "GetPool")
    /\ UNCHANGED <<cfgVars, tokens, allowance, poolPrice, liquidity, swapsDone, calls, swapsSent, waiting>>

\* blockUntilSuccessful around GetPool: returns once the address is set.
PollPool ==
    /\ pc = "GetPool"
    /\ poolPrice # None
    /\ pc' = "Mint"
    /\ UNCHANGED <<cfgVars, chainVars, calls, swapsSent, waiting>>

\* createPool, the rest: block number and block (whose timestamp is
\* unused), TickSpacing, the tick range, and Mint with the fixed deadline.
ProvideLiquidity ==
    /\ pc = "Mint"
    /\ LET r == TickRange(TickSpacingOf[fee])
           tx == [kind |-> "mint", token0 |-> "TokenA", token1 |-> "TokenB",
                  lower |-> r.lower, upper |-> r.upper, deadline |-> MintDeadline]
       IN  SendOrFail(MintOK(tx), tx, "Swap")
    /\ UNCHANGED <<cfgVars, tokens, allowance, poolPrice, liquidity, swapsDone, calls, swapsSent, waiting>>

\* swapTokenBForTokenA: one ExactInputSingle, TokenA in and TokenA out; a
\* send whose estimate fails is returned as the error.
SwapTokenBForTokenA ==
    LET tx == [kind |-> "swap", tokenIn |-> "TokenA", tokenOut |-> "TokenA"]
    IN  IF Estimates(SwapOK(tx))
        THEN Send(tx) /\ swapsSent' = swapsSent + 1
        ELSE UNCHANGED <<txs, swapsSent>>

\* Variant of LoadTestUniswapV3 that does not count the call.
LoadTestUniswapV3Uncounted ==
    /\ pc = "Swap"
    /\ calls < MaxSwaps
    /\ SwapTokenBForTokenA
    /\ UNCHANGED <<cfgVars, tokens, allowance, poolPrice, liquidity, swapsDone, calls, pc, waiting>>

\* loadTestUniswapV3: one call of the load test, with the caller's nonce;
\* its error is returned to the caller, and the next call goes on.
LoadTestUniswapV3 ==
    /\ pc = "Swap"
    /\ calls < MaxSwaps
    /\ calls' = calls + 1
    /\ SwapTokenBForTokenA
    /\ UNCHANGED <<cfgVars, tokens, allowance, poolPrice, liquidity, swapsDone, pc, waiting>>

\* An RPC of the current step returns an error, and the function returns it.
Fail ==
    /\ pc \in {"TokenA", "TokenB", "Create", "GetPool", "Mint"}
    /\ pc' = "Failed"
    /\ waiting' = FALSE
    /\ UNCHANGED <<cfgVars, chainVars, calls, swapsSent>>

Init ==
    /\ sorted \in AddressOrders
    /\ fee \in Fees
    /\ reserveA \in Reserves /\ reserveB \in Reserves
    /\ now \in BlockTimes
    /\ gasLimit \in GasLimitSet
    /\ txs = <<>>
    /\ tokens = {}
    /\ allowance = [t \in Token |-> {}]
    /\ poolPrice = None
    /\ liquidity = 0
    /\ calls = 0 /\ swapsSent = 0 /\ swapsDone = 0
    /\ pc = "TokenA" /\ waiting = FALSE

Progress ==
    \/ \E t \in Token : DeploySwapper(t)
    \/ ApproveSwapperSpendings("TokenA", "TokenB")
    \/ ApproveSwapperSpendings("TokenB", "Create")
    \/ CreateAndInitializePool
    \/ PollPool
    \/ ProvideLiquidity
    \/ LoadTestUniswapV3

Next == Mine \/ Progress \/ Fail

\* The chain mines and the load test runs; RPC errors need not happen.
Spec == Init /\ [][Next]_vars /\ WF_vars(Mine) /\ WF_vars(Progress)

\* The same against a node that answers every RPC.
SpecNoRPCErrors == Init /\ [][Mine \/ Progress]_vars /\ WF_vars(Mine) /\ WF_vars(Progress)

-----------------------------------------------------------------------------

TypeOK ==
    /\ \A i \in 1..Len(txs) : txs[i].kind \in {"deploy", "approve", "create", "mint", "swap"}
    /\ tokens \subseteq Token
    /\ allowance \in [Token -> SUBSET Spender]
    /\ poolPrice \in Nat \cup {None}
    /\ liquidity \in Nat /\ swapsDone \in 0..swapsSent /\ swapsSent \in 0..calls /\ calls \in 0..MaxSwaps
    /\ pc \in Token \cup {"Create", "GetPool", "Mint", "Swap", "Failed", "Panicked"}

\* The mint's range is the widest the pool accepts, for every fee tier:
\* both ticks are multiples of the pool's tick spacing, inside
\* [MIN_TICK, MAX_TICK], symmetric, and no multiple of the spacing lies
\* between tickUpper and MAX_TICK (createPool's tick computation).
TickRangeValid ==
    \A i \in 1..Len(txs) : txs[i].kind = "mint" =>
        LET s == TickSpacingOf[fee] IN
        /\ txs[i].lower % s = 0 /\ txs[i].upper % s = 0
        /\ MIN_TICK <= txs[i].lower /\ txs[i].upper <= MAX_TICK
        /\ txs[i].lower = -txs[i].upper
        /\ txs[i].upper + s > MAX_TICK

\* The load test's pool eventually holds liquidity: createPool returns
\* after "Liquidity provided to the TokenA-TokenB pool" and its mint
\* executes.
LiquidityProvided == <>(liquidity > 0)

\* Every swap loadTestUniswapV3 sent is executed once mined ("Swapped
\* TokenB for TokenA").
SwapsExecuted == (txs = <<>>) => swapsDone = swapsSent

=============================================================================
