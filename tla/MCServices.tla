----------------------------- MODULE MCServices -----------------------------
(* Either the network is disturbed or firmware is uploaded: what is not looked *)
(* at has used its bounds from the start.  Disturbances come in pairs: a change *)
(* of the address with a pulled cable, either of them with a fault, and a       *)
(* refusal of the flash or a power cut with the uploads.                       *)
EXTENDS Services

MCThresholds == <<2, 3, 4>>

NetworkHalf ==
  /\ cfg.ip = "a1"
  /\ \/ edits = 0 /\ drops = 0 /\ faults = MaxFaults
     \/ edits = 0 /\ drops = MaxDrops /\ faults = 0
     \/ edits = MaxEdits /\ drops = 0 /\ faults = 0
  /\ begins = MaxBegins /\ refusals = MaxRefusals /\ restarts = MaxRestarts

FirmwareHalf ==
  /\ edits = MaxEdits /\ drops = MaxDrops /\ faults = MaxFaults /\ phy
  /\ cfg = [dhcp |-> FALSE, ip |-> "a1"]
  /\ begins = 0
  /\ \/ refusals = 0 /\ restarts = MaxRestarts
     \/ refusals = MaxRefusals /\ restarts = 0

MCInit == ServicesInit /\ (NetworkHalf \/ FirmwareHalf)

MCSpec == MCInit /\ [][ServicesNext]_servicesVars /\ Fairness
=============================================================================
