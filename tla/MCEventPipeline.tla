-------------------------- MODULE MCEventPipeline ---------------------------
(* Two messages, as a batch of two or a request of one, with an event each.*)
EXTENDS EventPipeline, TLC

CONSTANTS e1, e2, a1, w1, w2

MCWorkers == {w1, w2}

MCSeverities == {"HIGH"}

MCMessages ==
    [event_id : {e1, e2}, asset_id : {a1}, severity : MCSeverities,
     attack_category : {"PortScan"}, from : {<<1, 1>>, <<1, 2>>}]

MCCarries ==
    [m \in {<<1, 1>>, <<1, 2>>} |->
        [event_id |-> IF m[2] = 1 THEN e1 ELSE e2, asset_id |-> a1, severity |-> "HIGH",
         attack_category |-> "PortScan", from |-> m]]

MCContract == {"LogSecurityEvent", "LogEvent"}
=============================================================================
