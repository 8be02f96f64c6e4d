------------------------------ MODULE Gateway ------------------------------
(***************************************************************************)
(* Where a seller's memo gets its data (coral-agents/seller-agent,         *)
(* service.ts and providers/): seven parts are asked of their providers at *)
(* once; what a provider cannot have live is filled from the deterministic *)
(* dataset.  Most providers keep what they got, live or not, for as long   *)
(* as the seller runs; the whole context is kept for a minute.             *)
(*                                                                         *)
(* A seller handles one delivery at a time.  Of a part only its mode       *)
(* counts: whether it is live.  Neither mode is shown by the data itself.  *)
(***************************************************************************)
EXTENDS FiniteSets, Integers

CONSTANTS Assets,
          Configured,     \* the parts whose provider has its key
          Missing

Capabilities == {"market-price", "news", "fundamentals", "solana-oracle",
                 "company-profile", "macro", "technicals"}

(* Providers that keep their answers, and those that have none to ask.     *)
Keeping == {"market-price", "news", "fundamentals", "solana-oracle"}
Unprovided == {"macro", "technicals"}

(* Missing is no answer; both modes are.                                   *)
ASSUME GatewayAssumption ==
  Missing \notin Assets \cup {"LIVE DATA", "DEMO FALLBACK DATA"}

VARIABLES
  cache,          \* cache[k]: the mode of what a provider keeps
  contextCache,   \* contextCache[a]: the context kept for asset a
  expired,        \* the assets whose context is too old
  gathering,      \* the parts that the delivery in hand has so far
  delivered       \* the memo delivered last

gatewayVars == <<cache, contextCache, expired, gathering, delivered>>

(* The oracle's price is that of SOL, whatever the asset.                  *)
Key(capability, asset) ==
  IF capability = "solana-oracle" THEN <<capability, Missing>> ELSE <<capability, asset>>

Keys == {Key(c, a) : c \in Keeping, a \in Assets}

Nothing == [asset |-> Missing, parts |-> <<>>]

GatewayInit ==
  /\ cache = [k \in Keys |-> Missing]
  /\ contextCache = [a \in Assets |-> Missing]
  /\ expired = {}
  /\ gathering = Nothing
  /\ delivered = Missing
-----------------------------------------------------------------------------
(* The context that is made of the parts.                                  *)

Live == "LIVE DATA"
Demo == "DEMO FALLBACK DATA"

(* sourceMode: headlines carry their source as text, in which no mode is   *)
(* found, so news always count as a fallback.                              *)
SourceMode(capability, mode) == IF capability = "news" THEN Demo ELSE mode

(* headlineSources: of headlines, the text of their source tells the mode. *)
(* A slip: all text is taken for a live source.                            *)
ListedModeMutant(capability, mode) == IF capability = "news" THEN Live ELSE mode

ListedMode(capability, mode) == mode

Context(asset, parts) ==
  LET sources == [c \in Capabilities |-> ListedMode(c, parts[c])]
      hasLive == \E c \in Capabilities : sources[c] = Live
  IN [asset |-> asset,
      parts |-> parts,
      sources |-> sources,
      dataMode |-> IF hasLive THEN Live ELSE Demo,
      observability |-> [c \in Capabilities |-> SourceMode(c, parts[c])],
      cacheHit |-> FALSE]

(* omniQuantService: what the memo says of its data.                       *)
Memo(context) ==
  [context |-> context,
   badge |-> IF context.dataMode = Live THEN "Live data" ELSE "Demo fallback data",
   oracle |-> IF context.parts["solana-oracle"] = Live THEN "Live data" ELSE "Demo fallback"]
-----------------------------------------------------------------------------
Kept(asset, capability) ==
  capability \in Keeping /\ cache[Key(capability, asset)] # Missing

(* Without a key, or without a provider, the answer is known at once.      *)
AtOnce(asset) ==
  [c \in {d \in Capabilities : Kept(asset, d) \/ d \in Unprovided \/ d \notin Configured} |->
     IF Kept(asset, c) THEN cache[Key(c, asset)] ELSE Demo]

Keep(asset, parts) ==
  [k \in Keys |->
     IF \E c \in DOMAIN parts \cap Keeping : k = Key(c, asset)
     THEN parts[CHOOSE c \in DOMAIN parts \cap Keeping : k = Key(c, asset)]
     ELSE cache[k]]

FromCache(asset) ==
  /\ contextCache[asset] # Missing /\ asset \notin expired
  /\ delivered' = Memo([contextCache[asset] EXCEPT !.cacheHit = TRUE])
  /\ UNCHANGED <<cache, contextCache, expired, gathering>>

Gather(asset) ==
  /\ contextCache[asset] = Missing \/ asset \in expired
  /\ gathering' = [asset |-> asset, parts |-> AtOnce(asset)]
  /\ cache' = Keep(asset, AtOnce(asset))
  /\ UNCHANGED <<contextCache, expired, delivered>>

GetContext ==
  /\ gathering = Nothing
  /\ \E asset \in Assets : FromCache(asset) \/ Gather(asset)

(* A provider answers, in any order, or fails and is made up for.          *)
Answered(capability, mode) ==
  LET parts == [c \in DOMAIN gathering.parts \cup {capability} |->
                  IF c = capability THEN mode ELSE gathering.parts[c]]
  IN /\ gathering' = [gathering EXCEPT !.parts = parts]
     /\ cache' = Keep(gathering.asset, parts)

ProviderAnswers ==
  /\ gathering # Nothing
  /\ \E c \in Capabilities \ DOMAIN gathering.parts, mode \in {Live, Demo} : Answered(c, mode)
  /\ UNCHANGED <<contextCache, expired, delivered>>

Deliver ==
  /\ gathering # Nothing /\ DOMAIN gathering.parts = Capabilities
  /\ LET context == Context(gathering.asset, gathering.parts)
     IN /\ contextCache' = [contextCache EXCEPT ![gathering.asset] = context]
        /\ delivered' = Memo(context)
  /\ expired' = expired \ {gathering.asset}
  /\ gathering' = Nothing
  /\ UNCHANGED cache

Expire ==
  /\ \E a \in Assets : contextCache[a] # Missing /\ expired' = expired \cup {a}
  /\ UNCHANGED <<cache, contextCache, gathering, delivered>>

GatewayNext == GetContext \/ ProviderAnswers \/ Deliver \/ Expire
-----------------------------------------------------------------------------
(* "Never hide fallback usage" (docs/fallback-strategy.md:8), through two *)
(* levels of caches and whatever failed when: a memo's badges say live     *)
(* only of what has a live part, each fallback is listed among the sources *)
(* and told by the observations; and a memo from the context cache is the  *)
(* one that the providers' caches would still make, but for the company's  *)
(* profile, which no provider keeps (financialDataProvider.ts:50-191).     *)
FallbackIsTold ==
  delivered # Missing =>
    LET context == delivered.context
    IN /\ delivered.badge = "Live data" <=> \E c \in Capabilities : context.parts[c] = Live
       /\ delivered.oracle = "Live data" => context.parts["solana-oracle"] = Live
       /\ \A c \in Capabilities :
            /\ context.parts[c] = Demo => context.sources[c] = Demo /\ context.observability[c] = Demo
            /\ c \in Keeping => context.parts[c] = cache[Key(c, context.asset)]
=============================================================================
