------------------------------- MODULE MCTci --------------------------------
(***************************************************************************)
(* Tci in two scenarios, to keep the runs small.  The two meet only in the *)
(* channel, where the echo of a VFO command is one more echo:              *)
(*   "audio"   one client, with audio, S-meter texts and any other command *)
(*   "tuning"  two clients that tune, each waiting for its echo as WSJT-X  *)
(*             does, with the browser tuning as well.                      *)
(* The uploaders, processes of their own that share nothing with it, are   *)
(* the third:                                                              *)
(*   "upload"  one of the uploaders, with no TCI client                    *)
(***************************************************************************)
EXTENDS Tci, Uploaders

CONSTANTS
  Listener,  \* the client of the audio scenario
  MaxTunes,  \* bound: commands of each client of the tuning scenario
  Spotted    \* bound: stations of the decodes that aprs_uploader.py gets

VARIABLE scenario

MCInit ==
  /\ Init /\ UploadInit
  /\ scenario \in IF program = "none" THEN {"audio", "tuning"} ELSE {"upload"}

MCNext ==
  /\ UNCHANGED scenario
  /\ \/ /\ scenario = "audio"
        /\ Connection(Listener) \/ AudioCommands(Listener) \/ AudioWorker
        /\ UNCHANGED uploadVars
     \/ /\ scenario = "tuning"
        /\ \/ \E c \in Conns :
                \/ Connection(c) /\ writer'[c] # "dead"
                \/ VfoCommands(c) /\ got[c] = 1 .. sent[c] /\ sent[c] < MaxTunes
           \/ VfoApply \/ CmdWorker
        /\ UNCHANGED uploadVars
     \/ /\ scenario = "upload" /\ UploadNext /\ UNCHANGED vars
        /\ program = "aprs" => heard' \in Spotted

MCSpec == MCInit /\ [][MCNext]_<<vars, uploadVars, scenario>> /\ Fairness /\ UploadFairness
=============================================================================
