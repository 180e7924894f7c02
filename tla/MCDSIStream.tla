---------------------------- MODULE MCDSIStream ----------------------------
(* The DSI packet ring as it is model-checked.  Its constants are numbers   *)
(* and sets of sides, given in DSI.cfg, DSIFlags.cfg and DSIEarly.cfg.      *)
EXTENDS DSIStream
=============================================================================
