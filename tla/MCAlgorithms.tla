---------------------------- MODULE MCAlgorithms ----------------------------
(* The readers of the device rings, and the sequential algorithms that the  *)
(* receivers run on what was read, each on its own: a behaviour is of one   *)
(* reader or of one algorithm, and the others are off.                      *)
EXTENDS MCRingReaders, CwTrack, CwMorse, OsdCore, Js8Text

MCWindows == [s \in Scenes |->
  CASE s = "copy" -> 5 [] s = "free" -> 3 [] OTHER -> 4]

(* A call, a respelling of it, and a fragment that starts both.            *)
MCCalls == {<<1, 2, 3, 4>>, <<1, 2, 5, 4>>, <<1, 2>>}

MCMorse == [c \in {"E", "T", "A", "N", "K"} |->
  CASE c = "E" -> <<1>> [] c = "T" -> <<3>> [] c = "A" -> <<1, 3>>
    [] c = "N" -> <<3, 1>> [] c = "K" -> <<3, 1, 3>>]

MCTexts ==
  LET L == {"E", "T", "A", "N", "K"}
  IN  {<<<<c>>>> : c \in L} \union {<<<<c, d>>>> : c, d \in L}
        \union {<<<<c>>, <<d>>>> : c, d \in L}

(* Codes of length 5: of dimension 2, with a zero and a repeated column, of *)
(* dimension 3, and rows that are not independent, with any positions       *)
(* erased; one of length 7 in which two flips can be better than one.       *)
MCReceived ==
  {<< <<1, 0, 1, 1, 0>>, <<0, 1, 1, 0, 1>> >>,
   << <<1, 1, 0, 0, 1>>, <<0, 0, 0, 1, 1>> >>,
   << <<1, 0, 0, 1, 1>>, <<1, 1, 0, 0, 1>>, <<0, 0, 1, 0, 1>> >>,
   << <<1, 0, 1, 1, 0>>, <<1, 0, 1, 1, 0>> >>} \X [1 .. 5 -> {-2, -1, 0, 1}]
  \union
  {<< <<1, 0, 0, 1, 1, 0, 0>>, <<0, 1, 0, 1, 0, 1, 0>>, <<0, 0, 1, 0, 0, 1, 1>> >>}
    \X [1 .. 7 -> {-1, 1}]

(* kHuffTable.                                                             *)
MCHuff == <<
  <<" ", <<0,1>>>>, <<"E", <<1,0,0>>>>, <<"T", <<1,1,0,1>>>>, <<"A", <<0,0,1,1>>>>,
  <<"O", <<1,1,1,1,1>>>>, <<"I", <<1,1,1,0,0>>>>, <<"N", <<1,0,1,1,1>>>>,
  <<"S", <<1,0,1,0,0>>>>, <<"H", <<0,0,0,1,1>>>>, <<"R", <<0,0,0,0,0>>>>,
  <<"D", <<1,1,1,0,1,1>>>>, <<"L", <<1,1,0,0,1,1>>>>, <<"C", <<1,1,0,0,0,1>>>>,
  <<"U", <<1,0,1,1,0,1>>>>, <<"M", <<1,0,1,0,1,1>>>>, <<"W", <<0,0,1,0,1,1>>>>,
  <<"F", <<0,0,1,0,0,1>>>>, <<"G", <<0,0,0,1,0,1>>>>, <<"Y", <<0,0,0,0,1,1>>>>,
  <<"P", <<1,1,1,1,0,1,1>>>>, <<"B", <<1,1,1,1,0,0,1>>>>, <<".", <<1,1,1,0,1,0,0>>>>,
  <<"V", <<1,1,0,0,1,0,1>>>>, <<"K", <<1,1,0,0,1,0,0>>>>, <<"-", <<1,1,0,0,0,0,1>>>>,
  <<"+", <<1,1,0,0,0,0,0>>>>, <<"?", <<1,0,1,1,0,0,1>>>>, <<"!", <<1,0,1,1,0,0,0>>>>,
  <<"\"", <<1,0,1,0,1,0,1>>>>, <<"X", <<1,0,1,0,1,0,0>>>>, <<"0", <<0,0,1,0,1,0,1>>>>,
  <<"J", <<0,0,1,0,1,0,0>>>>, <<"1", <<0,0,1,0,0,0,1>>>>, <<"Q", <<0,0,1,0,0,0,0>>>>,
  <<"2", <<0,0,0,1,0,0,1>>>>, <<"Z", <<0,0,0,1,0,0,0>>>>, <<"3", <<0,0,0,0,1,0,1>>>>,
  <<"5", <<0,0,0,0,1,0,0>>>>, <<"4", <<1,1,1,1,0,1,0,1>>>>, <<"9", <<1,1,1,1,0,1,0,0>>>>,
  <<"8", <<1,1,1,1,0,0,0,1>>>>, <<"6", <<1,1,1,1,0,0,0,0>>>>, <<"7", <<1,1,1,0,1,0,1,1>>>>,
  <<"/", <<1,1,1,0,1,0,1,0>>>> >>

(* Every character after one of two others; texts that leave no bit or one *)
(* bit of the payload; word indices at both ends of every depth; callsigns *)
(* with a blank before, the largest one, and the groups at both ends.      *)
MCSent ==
  LET Chars == {MCHuff[i][1] : i \in DOMAIN MCHuff}
      Ends  == UNION {{Base[k], Base[k + 1] - 1} : k \in 0 .. 4} \union {Base[5], JscSize - 1}
      Words == [word : Ends, space : BOOLEAN]
      Calls28 == [group : {0}, call : {<<20, 15, 0, 27, 27, 27>>, <<36, 20, 1, 10, 11, 12>>,
                                       <<10, 35, 9, 10>>, <<0, 0, 0>>, <<36, 35, 9>>}]
                   \union [group : {1, NumBasecalls - 1}, call : {<< >>}]
  IN  {[kind |-> "letters", text |-> <<a, b>>] : a \in {"E", "7"}, b \in Chars}
        \union {[kind |-> "letters", text |-> [i \in 1 .. n |-> "E"]] : n \in {1, 22, 23}}
        \union {[kind |-> "letters", text |-> [i \in 1 .. n |-> " "]] : n \in {1, 33, 34}}
        \union [kind : {"words", "fast"}, text : {<<w>> : w \in Words} \union (Words \X Words)]
        \union {[kind |-> "fast", text |-> [i \in 1 .. 14 |-> [word |-> 6, space |-> TRUE]]]}
        \union [kind : {"directed"},
                text : [from : Calls28, to : Calls28, cmd : {0, 31}, portable : {<<0, 1>>, <<1, 0>>},
                        extra : {0, 63}]]

MCNoisy ==
  {[kind |-> "fast", text |-> <<[word |-> JscSize - 1, space |-> TRUE]>>]}

(* One or two bits anywhere, and every burst of up to six.                 *)
MCErrors ==
  {{i, j} : i, j \in 0 .. 86}
    \union {{i} \union {i + d : d \in D} : i \in 0 .. 81, D \in SUBSET (1 .. 5)}

NoMorse ==
  /\ keyed = [text |-> << >>, exact |-> FALSE] /\ mpc = "off" /\ runs = << >>
  /\ mi = 0 /\ dit2 = 0 /\ split = 0 /\ symbol = << >> /\ text = << >>

NoTracker ==
  /\ scene = "fading" /\ window = MaxWindow["fading"]
  /\ pos = [c \in Carriers |-> 2] /\ tracks = << >>

NoOsd ==
  /\ gen = << >> /\ llr = << >> /\ opc = "off" /\ perm = << >> /\ rows = << >>
  /\ col = 0 /\ pivots = << >> /\ best = << >>

NoText == frame = << >> /\ wrong = {} /\ read = Reading("off", << >>)

algVars == <<trackVars, morseVars, osdVars, textVars>>
mcVars == <<vars, algVars>>

MCInit ==
  /\ Init
  /\ \/ who # "none" /\ NoTracker /\ NoMorse /\ NoOsd /\ NoText
     \/ /\ who = "none"
        /\ \/ TrackInit /\ NoMorse /\ NoOsd /\ NoText
           \/ NoTracker /\ MorseInit /\ NoOsd /\ NoText
           \/ NoTracker /\ NoMorse /\ OsdInit /\ NoText
           \/ NoTracker /\ NoMorse /\ NoOsd /\ TextInit

MCNext ==
  \/ Next /\ UNCHANGED algVars
  \/ TrackStep /\ UNCHANGED <<vars, morseVars, osdVars, textVars>>
  \/ MorseStep /\ UNCHANGED <<vars, trackVars, osdVars, textVars>>
  \/ OsdStep /\ UNCHANGED <<vars, trackVars, morseVars, textVars>>
  \/ Receive /\ UNCHANGED <<vars, trackVars, morseVars, osdVars>>

MCSpec == MCInit /\ [][MCNext]_mcVars /\ Fairness

=============================================================================
