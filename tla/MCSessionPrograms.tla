-------------------------- MODULE MCSessionPrograms --------------------------
(***************************************************************************)
(* The programs at the two ends of a session, each with its own threads    *)
(* and its own way to end: ltsm_client (ClientApp), the login screen       *)
(* (LoginHelper) and ltsm_display_session (DisplaySession).  They share no *)
(* memory: a behaviour runs one of them, the others have already ended.    *)
(***************************************************************************)
EXTENDS ClientApp, LoginHelper, DisplaySession

VARIABLE program

(* Lines of the configuration files and of the command line.               *)
Line(cmd, arg) == [cmd |-> cmd, arg |-> arg, num |-> -1]
Port(arg, num) == [cmd |-> "--port", arg |-> arg, num |-> num]
NoFiles == [etc |-> <<>>, user |-> <<>>, ext |-> <<>>]
McConfigs ==
    {NoFiles,
     [etc |-> <<Port("5901", 5901), Line("--username", "u"), Line("--nocaps", "")>>,
      user |-> <<Port("70000", 70000), Line("--password-file", "f")>>,
      ext |-> <<Line("--username", "w"), Line("--audio", "x"), Line("--save", "")>>],
     [etc |-> <<Line("--nothing", "")>>, user |-> <<>>, ext |-> <<>>]}
McArgs ==
    {<<Line("--loop", ""), Line("--password", "p"), Line("--username", "v")>>,
     <<Line("--loop", ""), Port("5902", 5902), Line("--load", "e"), Line("--smartcard", ""),
       Line("--share-folder", "dir")>>,
     <<Line("--kerberos", ""), Line("--printer", ""), Line("--fullscreen", ""), Line("--audio", ""),
       Line("--pkcs11-auth", "")>>,
     <<Line("--password", "q")>>, <<Line("--password", "")>>}
McFiles == [f \in {"f"} |-> "p"]

McTokens == <<"a", "b">>

-----------------------------------------------------------------------------
(* A program that is not the one of the behaviour: its last state.         *)
ClientGone == /\ conf = NoFiles /\ argv0 = <<Line("--password", "q")>> /\ argv = argv0 /\ opts = NoOpts
              /\ main = "returned" /\ restarting = FALSE /\ apps = 0 /\ failed = 0
              /\ rfb = "none" /\ window = FALSE /\ initAnswer = "none"
              /\ sdl = "none" /\ x11 = "none" /\ sig = "none"
              /\ guard = FALSE /\ stops = 0 /\ told = NotTold
HelperGone == /\ hpCard = [s \in HpSlots |-> HpNone]
              /\ hpUp = <<>> /\ hpLast = <<>> /\ hpDown = <<>> /\ hpLink = "none" /\ hpOpen = 0
              /\ hpThread = [at |-> "none", try |-> 1] /\ hpMutex = MutexFree
              /\ hpList = {} /\ hpPolled = {} /\ hpCall = NoCall /\ hpQueue = <<>>
              /\ hpWin = [open |-> "closed", token |-> FALSE, rows |-> <<>>, cur |-> 1, users |-> NoUsers,
                          inputs |-> TRUE, button |-> FALSE, asked |-> FALSE, time |-> 0, auto |-> TRUE]
              /\ hpLeft = 0 /\ hpOdd = {} /\ hpHash = HpNone
DisplayGone == /\ dsMain = "exited" /\ dsBus = "none" /\ dsProc = [p \in DsProcs |-> "none"]
               /\ dsChilds = {} /\ dsLock = "none" /\ dsTimer = FALSE /\ dsSignals = FALSE
               /\ dsPosted = FALSE /\ dsLeave = FALSE /\ dsFile = "none" /\ dsAddress = "none"
               /\ dsLeft = 0
McInit ==
    \/ program = "client" /\ ClInit /\ HelperGone /\ DisplayGone
    \/ program = "helper" /\ HpInit /\ ClientGone /\ DisplayGone
    \/ program = "display" /\ DsInit /\ ClientGone /\ HelperGone
McNext ==
    /\ UNCHANGED program
    /\ \/ program = "client" /\ ClNext /\ UNCHANGED <<hpVars, dsVars>>
       \/ program = "helper" /\ HpNext /\ UNCHANGED <<clVars, dsVars>>
       \/ program = "display" /\ DsNext /\ UNCHANGED <<clVars, hpVars>>
McVars == <<program, clVars, hpVars, dsVars>>

(* No fair action of a program that is gone is enabled.                    *)
McSpec == McInit /\ [][McNext]_McVars /\ ClFair /\ HpFair /\ DsFair
=============================================================================
