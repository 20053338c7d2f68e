----------------------------- MODULE MCServices -----------------------------
(***************************************************************************)
(* The services around the trading core, for TLC: the ingest commands, the *)
(* daily data check, the watchlist, wheel parameters, the llm strategy's   *)
(* pass, the agent registry, the configuration file and the migrations.    *)
(* They share no state, so a behaviour runs one of them, picked at the     *)
(* start; the variables of the others keep their initial values.           *)
(***************************************************************************)
EXTENDS HkexBackfill, TencentBackfill, DataCheck, Watchlist, StrategyConfig, AgentPass,
        Registry, ConfigStore, Migrations

VARIABLE part   \* the service that runs

MCLastDay == [s \in Series |-> IF s = "s1" THEN 2 ELSE 9]
MCLiquid  == (HkexDay \X Series) \ {<<3, "s2">>}

MCMarketZone == [s \in DcSymbol |-> -1]
MCClosed     == [s \in DcSymbol |-> {-2, 0}]
MCEarlyClose == [s \in DcSymbol |-> {2}]
MCDailyAt    == [j \in Job |-> IF j = "hk" THEN 1 ELSE 2]

Point(price, target) == [price |-> price, target |-> target]
MCCurve == {<<Point(1, 4), Point(3, 1), Point(6, 0)>>, <<Point(2, 5), Point(5, 1)>>,
            <<Point(1, 3), Point(3, 4)>>, <<Point(2, 4)>>}
MCEntry == [full_position_price |-> {0, 2}, zero_position_price |-> {2, 6},
            max_inventory |-> {0, 4, 5}, price_position_curve |-> MCCurve,
            covered_call_pct |-> {0, 1}, profit_take_pct |-> {0, 1},
            trade_gap |-> {0, 1}, no_trade_gap |-> {1},
            min_dte |-> {2, 4}, max_dte |-> {3, 4}, lot_size |-> {1}]

Part == {"hkex", "tencent", "datacheck", "watchlist", "strategy", "agent", "registry",
         "config", "migrate"}

servicesVars == <<hkexVars, tbVars, dcVars, wlVars, stVars, agVars, regVars, cfVars, mgVars>>

\* An arbitrary but fixed start for the services with several.
HkexRests   == dtop = [d \in HkexDay |-> NoFile]
ConfigRests == \A c \in Caller : storeOf[c] = CHOOSE s \in Stores : TRUE

ServicesInit ==
    /\ part \in Part
    /\ HkexInit /\ (part # "hkex" => HkexRests)
    /\ CfInit /\ (part # "config" => ConfigRests)
    /\ StInit /\ (part # "strategy" => params = CHOOSE p \in LegacyRow : TRUE)
    /\ WlInit /\ (part # "watchlist" => watch = [s \in WlSymbol |-> NoItem])
    /\ TbInit /\ DcInit /\ AgInit /\ RegInit /\ MgInit

ServicesNext ==
    \/ /\ part = "hkex" /\ HkexNext
       /\ UNCHANGED <<part, tbVars, dcVars, wlVars, stVars, agVars, regVars, cfVars, mgVars>>
    \/ /\ part = "tencent" /\ TbNext
       /\ UNCHANGED <<part, hkexVars, dcVars, wlVars, stVars, agVars, regVars, cfVars, mgVars>>
    \/ /\ part = "datacheck" /\ DcNext
       /\ UNCHANGED <<part, hkexVars, tbVars, wlVars, stVars, agVars, regVars, cfVars, mgVars>>
    \/ /\ part = "watchlist" /\ WlNext
       /\ UNCHANGED <<part, hkexVars, tbVars, dcVars, stVars, agVars, regVars, cfVars, mgVars>>
    \/ /\ part = "strategy" /\ StNext
       /\ UNCHANGED <<part, hkexVars, tbVars, dcVars, wlVars, agVars, regVars, cfVars, mgVars>>
    \/ /\ part = "agent" /\ AgNext
       /\ UNCHANGED <<part, hkexVars, tbVars, dcVars, wlVars, stVars, regVars, cfVars, mgVars>>
    \/ /\ part = "registry" /\ RegNext
       /\ UNCHANGED <<part, hkexVars, tbVars, dcVars, wlVars, stVars, agVars, cfVars, mgVars>>
    \/ /\ part = "config" /\ CfNext
       /\ UNCHANGED <<part, hkexVars, tbVars, dcVars, wlVars, stVars, agVars, regVars, mgVars>>
    \/ /\ part = "migrate" /\ MgNext
       /\ UNCHANGED <<part, hkexVars, tbVars, dcVars, wlVars, stVars, agVars, regVars, cfVars>>

\* Of these the registry and the pass promise progress, and their steps are fair.
ServicesSpec ==
    /\ ServicesInit /\ [][ServicesNext]_<<part, servicesVars>>
    /\ \A a \in Agent : WF_regVars(part = "registry" /\ RegStep(a))
    /\ WF_regVars(part = "registry" /\ StartMaster)
    /\ WF_agVars(part = "agent" /\ AgProgram)
    /\ WF_agVars(part = "agent" /\ AgTick)
    /\ WF_agVars(part = "agent" /\ TimesOut)
=============================================================================
