------------------------------ MODULE ClientApp ------------------------------
(***************************************************************************)
(* The client program (client/ltsm_client.cpp): how its options are        *)
(* gathered from the configuration files and the command line, and the     *)
(* life of one ClientApp, made and run in a loop by main().  A ClientApp   *)
(* runs coroutines on a pool of threads (connecting and talking RFB,       *)
(* reading X11 events, waiting for signals) and the SDL events in the main *)
(* thread; stop() is posted by whoever ends the connection and cancels the *)
(* others.  A cancellation reaches only a coroutine that was spawned, and  *)
(* signals_.cancel() only a wait that has begun.                           *)
(***************************************************************************)
EXTENDS Integers, Sequences

CONSTANTS ClConfigs,   \* what the configuration files may hold: [etc, user, ext], sequences of lines
          ClArgs,      \* the command lines: sequences of lines [cmd, arg, num]
          ClEnv,       \* LTSM_PASSWORD in the environment, or ""
          ClFiles,     \* ClFiles[f] is the first line of password file f, or "" when it is no file
          ClSecret,    \* the password the server accepts
          ClApps,      \* bound: how many ClientApps main() makes
          ClFails      \* bound: how many constructors throw

ClLines == Seq([cmd : STRING, arg : STRING, num : Int])
ASSUME ClAssumption ==
    /\ ClConfigs \subseteq [etc : ClLines, user : ClLines, ext : ClLines]
    /\ ClArgs \subseteq ClLines
    /\ ClApps \in Nat /\ ClFails \in Nat

VARIABLES conf, argv0, argv, opts, main, restarting, apps, failed,
          rfb, window, initAnswer, sdl, x11, sig, guard, stops, told

clVars == <<conf, argv0, argv, opts, main, restarting, apps, failed,
            rfb, window, initAnswer, sdl, x11, sig, guard, stops, told>>

Hidden == "*****"

NoOpts == [loop |-> FALSE, pass |-> "", passfile |-> "", username |-> "", port |-> 5900,
           fullscreen |-> FALSE, redirect |-> {}, pkcs11 |-> FALSE, krb5 |-> FALSE, krb5Name |-> "",
           authVnc |-> FALSE, bad |-> FALSE]

------------------------------------------------------------------------------
(* The options.  A line is a command, its argument ("" when there is none) *)
(* and the number the argument spells (-1 when it spells none).            *)

FlagCommands == {"--nocaps", "--loop", "--fullscreen", "--smartcard"}

\* switches: they take no argument and are never taken back
ParseFlag(o, l) ==
  CASE l.cmd = "--loop" -> [o EXCEPT !.loop = TRUE]
    [] l.cmd = "--fullscreen" -> [o EXCEPT !.fullscreen = TRUE]
    [] l.cmd = "--smartcard" -> [o EXCEPT !.redirect = @ \cup {"pcsc"}]
    [] OTHER -> o

RedirectCommands == {"--audio", "--printer", "--kerberos", "--pkcs11-auth"}

\* switches with an optional argument: a wrong audio encoding switches the audio off, a wrong printer
\* url leaves the default one, a pkcs11 library that does not exist is dropped
ParseRedirect(o, l) ==
  CASE l.cmd = "--audio" -> [o EXCEPT !.redirect = IF l.arg \in {"", "opus"} THEN @ \cup {"audio"} ELSE @ \ {"audio"}]
    [] l.cmd = "--printer" -> [o EXCEPT !.redirect = @ \cup {"cups"}]
    [] l.cmd = "--kerberos" -> [o EXCEPT !.krb5 = TRUE]
    [] l.cmd = "--pkcs11-auth" -> [o EXCEPT !.pkcs11 = l.arg \in {"", "lib"}]
    [] OTHER -> o

ValueCommands == {"--password", "--password-file", "--username", "--port", "--share-folder"}

FaultParseValue(o, l) ==
  CASE l.cmd = "--port" -> [o EXCEPT !.port = l.num]
    [] l.cmd = "--username" -> [o EXCEPT !.username = l.arg]
    [] OTHER -> o

\* a port out of 16 bits, or no number, is the default port
Ports == 0..65535
PortOf(num) == IF num \in Ports THEN num ELSE 5900

\* commands that need an argument
ParseValue(o, l) ==
  CASE l.cmd = "--password" -> [o EXCEPT !.pass = l.arg]
    [] l.cmd = "--password-file" -> [o EXCEPT !.passfile = l.arg]
    [] l.cmd = "--username" -> [o EXCEPT !.username = l.arg]
    [] l.cmd = "--port" -> [o EXCEPT !.port = PortOf(l.num)]
    [] l.cmd = "--share-folder" -> [o EXCEPT !.redirect = IF l.arg = "dir" THEN @ \cup {"fuse"} ELSE @]
    [] OTHER -> o

\* anything else throws invalid_argument, a value command without its argument too
ParseCommand(o, l) ==
  IF o.bad \/ l.cmd \in {"--load", "--save"} THEN o
  ELSE IF l.cmd \in FlagCommands THEN ParseFlag(o, l)
  ELSE IF l.cmd \in RedirectCommands THEN ParseRedirect(o, l)
  ELSE IF l.cmd \in ValueCommands /\ l.arg # "" THEN ParseValue(o, l)
  ELSE [o EXCEPT !.bad = TRUE]

LoadConfig(o, lines) ==
  LET parsed[n \in 0..Len(lines)] == IF n = 0 THEN o ELSE ParseCommand(parsed[n - 1], lines[n])
  IN  parsed[Len(lines)]

\* the password of the environment, then that of the password file, when none was given; the library
\* for pkcs11 is dropped when a password and a name were given before that
UpdateSecurity(o) ==
  LET p == [o EXCEPT !.pkcs11 = @ /\ (o.pass = "" \/ o.username = "")]
      e == IF p.pass = "" THEN [p EXCEPT !.pass = ClEnv] ELSE p
      f == IF p.pass = "" /\ p.passfile \in DOMAIN ClFiles THEN [e EXCEPT !.pass = ClFiles[p.passfile]] ELSE e
  IN  [f EXCEPT !.authVnc = f.pass # "", !.krb5Name = IF f.krb5 THEN f.username ELSE ""]

FaultMadeOpts(c, args) ==
  UpdateSecurity(LoadConfig(LoadConfig(LoadConfig(NoOpts, args), c.etc), c.user))

\* the command line is read after the files, the file of --load last of all
MadeOpts(c, args) ==
  LET base == LoadConfig(LoadConfig(LoadConfig(NoOpts, c.etc), c.user), args)
      ext == \E i \in 1..Len(args) : args[i].cmd = "--load"
  IN  UpdateSecurity(IF ext THEN LoadConfig(base, c.ext) ELSE base)

\* hidePasswordArgument: the argument of the process is overwritten once it was read
HidePasswordArgument(args) ==
  [i \in 1..Len(args) |-> IF args[i].cmd = "--password" /\ args[i].arg # ""
                          THEN [args[i] EXCEPT !.arg = Hidden] ELSE args[i]]

\* clientOptions: what the server is told
ClientOptions(o) == [username |-> o.username, password |-> o.pass, redirect |-> o.redirect, pkcs11 |-> o.pkcs11]

------------------------------------------------------------------------------
NotTold == [username |-> "", password |-> "", redirect |-> {}, pkcs11 |-> FALSE]

ClInit == /\ conf \in ClConfigs
          /\ argv0 \in ClArgs
          /\ argv = argv0
          /\ opts = NoOpts
          /\ main = "make" /\ restarting = TRUE /\ apps = 0 /\ failed = 0
          /\ rfb = "none" /\ window = FALSE /\ initAnswer = "none"
          /\ sdl = "none" /\ x11 = "none" /\ sig = "none"
          /\ guard = FALSE /\ stops = 0 /\ told = NotTold

appVars == <<rfb, window, initAnswer, sdl, x11, sig, guard, stops, told>>

\* main(): ClientApp app(argc, argv); then start()
MakeApp ==
  /\ main = "make" /\ restarting /\ apps < ClApps
  /\ \E o \in {MadeOpts(conf, argv)} :
     /\ opts' = o
     /\ IF o.bad
        THEN /\ main' = "returned"
             /\ UNCHANGED <<argv, restarting, apps, rfb, window, initAnswer, sdl, x11, sig, guard, stops, told>>
        ELSE /\ main' = "run"
             /\ argv' = HidePasswordArgument(argv)
             /\ restarting' = o.loop
             /\ apps' = apps + 1
             /\ rfb' = "connect" /\ window' = FALSE /\ initAnswer' = "none"
             /\ sdl' = "none" /\ x11' = "none" /\ sig' = "none"
             /\ guard' = TRUE /\ stops' = 0 /\ told' = NotTold
  /\ UNCHANGED <<conf, argv0, failed>>

\* the display of the user cannot be reached: main() logs it and, restarting or not, goes round
MakeAppThrows ==
  /\ main = "make" /\ restarting /\ failed < ClFails
  /\ failed' = failed + 1
  /\ UNCHANGED <<conf, argv0, argv, opts, main, restarting, apps, appVars>>

Posted(n) == IF stops < n THEN stops + 1 ELSE stops

\* a stop is posted at most twice before it runs
PostStop == stops' = Posted(2)

Cancelled(co) == IF co = "run" THEN "cancel" ELSE co

------------------------------------------------------------------------------
(* The coroutine that talks RFB, on rfb_strand_. *)

RfbUnchanged == UNCHANGED <<conf, argv0, argv, opts, main, restarting, apps, failed, initAnswer, sdl, guard, told>>

\* rfbHostConnectAwait: a system_error posts stop, an aborted one does not
RfbConnect(res) ==
  /\ rfb = "connect"
  /\ rfb' = IF res = "ok" THEN "handshake" ELSE "done"
  /\ IF res = "error" THEN PostStop ELSE UNCHANGED stops
  /\ RfbUnchanged /\ UNCHANGED <<window, x11, sig>>

\* rfbHandshakeAwait up to the server's pixel format; false (the server refused) only returns
RfbAuthenticate(res) ==
  /\ rfb = "handshake"
  /\ res = "ok" => (~opts.authVnc \/ opts.pass = ClSecret)
  /\ rfb' = IF res = "ok" THEN "initwait" ELSE "done"
  /\ IF res = "error" THEN PostStop ELSE UNCHANGED stops
  /\ RfbUnchanged /\ UNCHANGED <<window, x11, sig>>

\* clientRecvPixelFormatEvent: the answer of sdlWindowInit, then the loop of X11 events
RecvPixelFormatEvent ==
  /\ rfb = "initwait" /\ initAnswer # "none"
  /\ rfb' = "init"
  /\ x11' = "run"
  /\ IF initAnswer = "ok" THEN UNCHANGED stops ELSE PostStop
  /\ UNCHANGED <<conf, argv0, argv, opts, main, restarting, apps, failed, window, initAnswer, sdl, sig, guard, told>>

\* the rest of the handshake; start() returns when there is no window, else waits for signals and reads messages
RfbHandshakeEnds(res) ==
  /\ rfb = "init"
  /\ IF res = "ok" /\ window
     THEN rfb' = "run" /\ sig' = "spawned"
     ELSE rfb' = "done" /\ UNCHANGED sig
  /\ IF res = "error" THEN PostStop ELSE UNCHANGED stops
  /\ RfbUnchanged /\ UNCHANGED <<window, x11>>

FaultRfbMessagesEnd(res) ==
  /\ rfb \in {"run", "cancel"}
  /\ res = "aborted" => rfb = "cancel"
  /\ rfb' = "done"
  /\ UNCHANGED stops
  /\ RfbUnchanged /\ UNCHANGED <<window, x11, sig>>

\* the messages loop ends: an exception posts stop, an aborted wait does not
RfbMessagesEnd(res) ==
  /\ rfb \in {"run", "cancel"}
  /\ res = "aborted" => rfb = "cancel"
  /\ rfb' = "done"
  /\ IF res = "error" THEN PostStop ELSE UNCHANGED stops
  /\ RfbUnchanged /\ UNCHANGED <<window, x11, sig>>

\* clientRecvLtsmHandshakeEvent, by way of the X11 strand
SendClientVariables ==
  /\ rfb = "run" /\ told = NotTold
  /\ told' = ClientOptions(opts)
  /\ told' # NotTold
  /\ UNCHANGED <<conf, argv0, argv, opts, main, restarting, apps, failed, rfb, window, initAnswer, sdl, x11, sig, guard, stops>>

------------------------------------------------------------------------------
(* The main thread: sdl_ctx_.run(), then thread_pool_.join(). *)

\* sdlWindowInit: Window's constructor throws, or its pixel format is unknown, or all is well
SdlWindowInit(res) ==
  /\ main = "run" /\ rfb = "initwait" /\ initAnswer = "none"
  /\ initAnswer' = res
  /\ window' = (res # "throws")
  /\ sdl' = IF res = "ok" THEN "run" ELSE sdl
  /\ UNCHANGED <<conf, argv0, argv, opts, main, restarting, apps, failed, rfb, x11, sig, guard, stops, told>>

\* sdlEventsLoop: the window is closed, ctrl + F10, or an exception posts stop
SdlEventStops(ends) ==
  /\ main = "run" /\ sdl = "run"
  /\ stops < 2
  /\ PostStop
  /\ sdl' = IF ends THEN "done" ELSE sdl
  /\ UNCHANGED <<conf, argv0, argv, opts, main, restarting, apps, failed, rfb, window, initAnswer, x11, sig, guard, told>>

SdlLoopAborted ==
  /\ main = "run" /\ sdl = "cancel"
  /\ sdl' = "done"
  /\ UNCHANGED <<conf, argv0, argv, opts, main, restarting, apps, failed, rfb, window, initAnswer, x11, sig, guard, stops, told>>

\* the context of the main thread has no more work
SdlContextEnds ==
  /\ main = "run" /\ ~guard
  /\ sdl \in {"none", "done"} /\ ~(rfb = "initwait" /\ initAnswer = "none")
  /\ main' = "join"
  /\ UNCHANGED <<conf, argv0, argv, opts, restarting, apps, failed, appVars>>

\* every thread of the pool left ioc().run(): the ClientApp is gone, main() goes round
PoolJoined ==
  /\ main = "join"
  /\ rfb = "done" /\ x11 \in {"none", "done"} /\ sig \in {"none", "done"} /\ stops = 0
  /\ main' = IF restarting THEN "make" ELSE "returned"
  /\ UNCHANGED <<conf, argv0, argv, opts, restarting, apps, failed, appVars>>

------------------------------------------------------------------------------
(* The pool: stop(), the X11 events and the signals. *)

FaultStopApp ==
  /\ stops > 0
  /\ stops' = stops - 1
  /\ rfb' = Cancelled(rfb)
  /\ x11' = Cancelled(x11)
  /\ sig' = IF sig = "wait" THEN "done" ELSE sig
  /\ guard' = FALSE
  /\ UNCHANGED <<conf, argv0, argv, opts, main, restarting, apps, failed, window, initAnswer, sdl, told>>

StopApp ==
  /\ stops > 0
  /\ stops' = stops - 1
  /\ rfb' = Cancelled(rfb)
  /\ sdl' = Cancelled(sdl)
  /\ x11' = Cancelled(x11)
  /\ sig' = IF sig = "wait" THEN "done" ELSE sig
  /\ guard' = FALSE
  /\ UNCHANGED <<conf, argv0, argv, opts, main, restarting, apps, failed, window, initAnswer, told>>

\* x11EventsLoop: an error of the connection posts stop
X11LoopEnds(res) ==
  /\ \/ res = "error" /\ x11 = "run"
     \/ res = "aborted" /\ x11 = "cancel"
  /\ x11' = "done"
  /\ IF res = "error" THEN PostStop ELSE UNCHANGED stops
  /\ RfbUnchanged /\ UNCHANGED <<rfb, window, sig>>

\* signalsHandler begins its wait, and gets a signal
SignalsWait ==
  /\ sig = "spawned"
  /\ sig' = "wait"
  /\ RfbUnchanged /\ UNCHANGED <<rfb, window, x11, stops>>

SignalArrives ==
  /\ sig = "wait"
  /\ sig' = "done"
  /\ PostStop
  /\ RfbUnchanged /\ UNCHANGED <<rfb, window, x11>>

------------------------------------------------------------------------------
RfbSteps == \/ \E res \in {"ok", "error"} : RfbConnect(res)
            \/ \E res \in {"ok", "error", "false"} : RfbAuthenticate(res)
            \/ RecvPixelFormatEvent
            \/ \E res \in {"ok", "error"} : RfbHandshakeEnds(res)

Aborts == \/ \E res \in {"error", "aborted"} : rfb = "cancel" /\ RfbMessagesEnd(res)
          \/ SdlLoopAborted
          \/ X11LoopEnds("aborted")
          \/ StopApp
          \/ SignalsWait

MainSteps == \/ \E res \in {"ok", "format", "throws"} : SdlWindowInit(res)
             \/ SdlContextEnds \/ PoolJoined

ClNext == \/ RfbSteps \/ Aborts \/ MainSteps
          \/ MakeApp \/ MakeAppThrows
          \/ rfb = "run" /\ RfbMessagesEnd("error")
          \/ SendClientVariables
          \/ \E ends \in BOOLEAN : SdlEventStops(ends)
          \/ X11LoopEnds("error")
          \/ SignalArrives

\* the threads of the pool and the main thread run what is ready; the network answers or fails; nothing
\* obliges the server to hang up, the user to close the window or a signal to arrive
ClFair == WF_clVars(RfbSteps) /\ WF_clVars(Aborts) /\ WF_clVars(MainSteps)
ClSpec == ClInit /\ [][ClNext]_clVars /\ ClFair

------------------------------------------------------------------------------
\* the state has its shape: the options of ClientApp and the life of each of its coroutines
ClTypeOK ==
  /\ main \in {"make", "run", "join", "returned"}
  /\ restarting \in BOOLEAN /\ apps \in 0..ClApps /\ failed \in 0..ClFails
  /\ rfb \in {"none", "connect", "handshake", "initwait", "init", "run", "cancel", "done"}
  /\ window \in BOOLEAN /\ guard \in BOOLEAN /\ stops \in 0..2
  /\ initAnswer \in {"none", "ok", "format", "throws"}
  /\ sdl \in {"none", "run", "cancel", "done"} /\ x11 \in {"none", "run", "cancel", "done"}
  /\ sig \in {"none", "spawned", "wait", "done"}
  /\ opts.port \in Ports /\ opts.redirect \subseteq {"pcsc", "audio", "cups", "fuse"}
  /\ Len(argv) = Len(argv0)
  /\ main = "returned" \/ ~opts.bad

\* printHelp: "load priority: /etc/ltsm/client.cfg, the user's file, set --param, load from ext config": the
\* port and the name of every ClientApp are the last ones along that list
ClLoadPriority ==
  LET hasExt == \E i \in 1..Len(argv0) : argv0[i].cmd = "--load"
      all == conf.etc \o conf.user \o argv0 \o (IF hasExt THEN conf.ext ELSE <<>>)
      LastOf(cmd) == {i \in 1..Len(all) : /\ all[i].cmd = cmd
                                          /\ \A j \in 1..Len(all) : all[j].cmd = cmd => j <= i}
  IN  main \in {"run", "join"} =>
        /\ \A i \in LastOf("--port") : opts.port = (IF all[i].num \in Ports THEN all[i].num ELSE 5900)
        /\ LastOf("--port") = {} => opts.port = 5900
        /\ \A i \in LastOf("--username") : opts.username = all[i].arg

(* What the program runs with is what was configured, file before command  *)
(* line, with every option of its type.                                    *)
ClOptions == ClTypeOK /\ ClLoadPriority

\* stop(): once every coroutine of ClientApp runs (the messages loop, the SDL and the X11 events, the wait
\* for signals), a posted stop ends them all and start() returns, so that main() can go round or leave
ClStopEnds == (/\ stops > 0 /\ main = "run" /\ sig = "wait"
               /\ rfb = "run" /\ sdl = "run" /\ x11 = "run") ~> (main \in {"make", "returned"})

\* the server hanging up is enough: a broken connection ends the whole ClientApp and not only its reader
ClHangUpEnds == (rfb = "done" /\ main = "run" /\ sig = "wait" /\ x11 = "run") ~> (main \in {"make", "returned"})

(* start() returns, whoever ends the connection.                           *)
ClEnds == ClStopEnds /\ ClHangUpEnds

\* printHelp: "--loop (always reconnecting)": a client run with --loop keeps making ClientApps
\* The code does not keep it (README, section 5).
ClAlwaysReconnects == (restarting /\ main = "run" /\ apps < ClApps /\ rfb = "done") ~> (main = "make")

\* printHelp: "--loop (always reconnecting)": every ClientApp made of one command line connects with the
\* password that was given on it
\* The code does not keep it (README, section 5).
ClSamePassword ==
  \A i \in 1..Len(argv0) :
     (main = "run" /\ argv0[i].cmd = "--password") => opts.pass = argv0[i].arg
==============================================================================
