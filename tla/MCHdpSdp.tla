------------------------------ MODULE MCHdpSdp ------------------------------
(* Registration parameters for HdpSdp: a sink with a service name, a      *)
(* source that does not advertise, an advertising source with a described *)
(* data type, and a dual-role app with all three names whose MDEPs give    *)
(* exactly BTA_HL_NUM_SUP_FEATURE_ELEMS (3) entries.  MCOverflowConfigs    *)
(* adds an app whose third MDEP comes after the loop has broken at 3.      *)
EXTENDS HdpSdp

MCSink == [role |-> "sink", advertize |-> FALSE, text |-> {"name"},
           mdeps |-> << [role |-> "sink", types |-> <<0>>] >>]
MCQuietSource == [role |-> "source", advertize |-> FALSE, text |-> {},
                  mdeps |-> << [role |-> "source", types |-> <<0>>] >>]
MCSource == [role |-> "source", advertize |-> TRUE, text |-> {},
             mdeps |-> << [role |-> "source", types |-> <<5>>] >>]
MCDualFull == [role |-> "dual", advertize |-> FALSE, text |-> {"name", "desp", "provider"},
               mdeps |-> << [role |-> "sink", types |-> <<0, 5>>],
                            [role |-> "source", types |-> <<0>>] >>]
MCDualOverflow == [role |-> "dual", advertize |-> FALSE, text |-> {},
                   mdeps |-> << [role |-> "sink", types |-> <<0, 0>>],
                                [role |-> "sink", types |-> <<0>>],
                                [role |-> "source", types |-> <<0>>] >>]

MCAppConfigs == {MCSink, MCQuietSource, MCSource, MCDualFull}
MCOverflowConfigs == MCAppConfigs \cup {MCDualOverflow}
=============================================================================
