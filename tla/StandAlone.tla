----------------------------- MODULE StandAlone -----------------------------
(***************************************************************************)
(* The stand-alone server, main.c: reading the options of the              *)
(* configuration file and of the command line, starting the server and its *)
(* further domains, and running it as a console program (until a signal),  *)
(* as a Windows service (until the service manager stops it) or behind the *)
(* tray icon, where message loops nest: every dialog box and message box   *)
(* runs a loop of its own that dispatches the commands of the tray menu.   *)
(* An option value is a sequence of texts: a list option gets appended.    *)
(***************************************************************************)
EXTENDS Naturals, Sequences

CONSTANTS MaxOptions,   \* MAX_OPTIONS
          MaxLines      \* bound: lines of the configuration file, options of the command line

ASSUME StandAloneAssumption == MaxOptions \in Nat \ {0} /\ MaxLines \in Nat

VARIABLES
    hostKind,      \* which main() runs: "off", "console", "service", "gui"
    saPc,          \* start_civetweb's progress, or "pump" for the message or sleep loop
    confFile,      \* the lines of the configuration file
    cmdLine,       \* the options of the command line
    unread,        \* entries of the current source that are still to be read
    opts,          \* the options array: name and value
    givenOptions,  \* history: the values of every option that set_option accepted, oldest first
    g_add_domain,
    loadedDomains, \* domains the running context has loaded
    g_ctx,         \* "null", "live", or "freed" when mg_stop was called on it
    servers,       \* contexts that were started and not stopped
    loops,         \* nested message loops, innermost last
    saveDisabled,  \* the save button is disabled
    g_exit_flag

saVars == <<hostKind, saPc, confFile, cmdLine, unread, opts, givenOptions, g_add_domain,
            loadedDomains, g_ctx, servers, loops, saveDisabled, g_exit_flag>>

sourceVars == <<hostKind, confFile, cmdLine>>
serverVars == <<loadedDomains, g_ctx, servers>>
loopVars   == <<loops, saveDisabled, g_exit_flag>>

\* The types of the options that the model tells apart; main.c reads add_domain itself
\* and knows no option "other".
optionType == [listening_ports |-> "list", document_root |-> "text", enable_webdav |-> "boolean"]

NothingGiven == [n \in DOMAIN optionType |-> <<>>]

OptionEntries ==
    {[name |-> n, value |-> v] : n \in {"listening_ports", "document_root"}, v \in {"x", "y"}}
    \cup {[name |-> "enable_webdav", value |-> v] : v \in {"yes", "maybe"}}
    \cup {[name |-> "add_domain", value |-> "d"], [name |-> "other", value |-> "x"]}

OptionLines == UNION {[1..n -> OptionEntries] : n \in 0..MaxLines}

SaInit ==
    /\ hostKind = "off" /\ saPc = "off" /\ confFile = <<>> /\ cmdLine = <<>> /\ unread = <<>>
    /\ opts = <<>> /\ givenOptions = NothingGiven /\ g_add_domain = <<>> /\ loadedDomains = {}
    /\ g_ctx = "null" /\ servers = 0 /\ loops = <<>> /\ saveDisabled = FALSE /\ g_exit_flag = FALSE

\* exit() and the end of main: the process is gone (the next one finds some file).
ProcessExits ==
    /\ hostKind' = "off" /\ saPc' = "off" /\ cmdLine' = <<>> /\ unread' = <<>> /\ opts' = <<>>
    /\ givenOptions' = NothingGiven /\ g_add_domain' = <<>> /\ loadedDomains' = {} /\ g_ctx' = "null"
    /\ servers' = 0 /\ loops' = <<>> /\ saveDisabled' = FALSE /\ g_exit_flag' = FALSE
    /\ confFile' = <<>>

-----------------------------------------------------------------------------
(* Options *)

\* start_civetweb begins: document_root is set to ".", the file is read first.
BeginOptions ==
    /\ saPc' = "file" /\ unread' = confFile
    /\ opts' = <<[name |-> "document_root", value |-> <<".">>]>>
    /\ givenOptions' = [NothingGiven EXCEPT !["document_root"] = <<".">>]

\* The process is started; init_server_name clears the domains.
LaunchProcess(h, f, a) ==
    /\ hostKind = "off" /\ hostKind' = h /\ confFile' = f
    /\ cmdLine' = IF h = "service" THEN <<>> ELSE a
    /\ saPc' = "file" /\ unread' = f
    /\ opts' = <<[name |-> "document_root", value |-> <<".">>]>>
    /\ givenOptions' = [NothingGiven EXCEPT !["document_root"] = <<".">>]
    /\ loops' = <<"loop">>
    /\ UNCHANGED <<g_add_domain, serverVars, saveDisabled, g_exit_flag>>

\* -I, -A, -R, -C, -L, -E, -h: the tool runs and the process exits.  A configuration file
\* that was named and cannot be opened, or a malformed command line, ends it as well.
EndsAtOnce == hostKind # "off" /\ saPc = "file" /\ unread = confFile /\ loops = <<"loop">> /\ ProcessExits

OptionAccepted(e) ==
    /\ e.name \in DOMAIN optionType
    /\ optionType[e.name] = "boolean" => e.value \in {"yes", "no"}

OptionIndex(n) == {i \in DOMAIN opts : opts[i].name = n}

\* Mutant: an option that is set already keeps its value.
SetOptionFirst(e) ==
    IF OptionIndex(e.name) = {}
    THEN Append(opts, [name |-> e.name, value |-> <<e.value>>])
    ELSE opts

\* set_option, for an option of the server: a new option is appended to the array, a list
\* option that is set already gets the value appended, any other one is overwritten.
SetOption(e) ==
    IF OptionIndex(e.name) = {}
    THEN Append(opts, [name |-> e.name, value |-> <<e.value>>])
    ELSE [i \in DOMAIN opts |->
            IF i \notin OptionIndex(e.name) THEN opts[i]
            ELSE [opts[i] EXCEPT !.value =
                    IF optionType[e.name] = "list" THEN Append(@, e.value) ELSE <<e.value>>]]

\* The next line of the file or the next option of the command line; one that is not
\* accepted is reported and ignored.
ReadOption ==
    /\ saPc \in {"file", "argv"} /\ unread # <<>>
    /\ OptionAccepted(Head(unread)) => Len(SetOption(Head(unread))) <= MaxOptions
    /\ unread' = Tail(unread)
    /\ LET e == Head(unread) IN
       /\ g_add_domain' = IF e.name = "add_domain" THEN Append(g_add_domain, e.value) ELSE g_add_domain
       /\ opts' = IF OptionAccepted(e) THEN SetOption(e) ELSE opts
       /\ givenOptions' = IF OptionAccepted(e) THEN [givenOptions EXCEPT ![e.name] = Append(@, e.value)] ELSE givenOptions
    /\ UNCHANGED <<sourceVars, saPc, serverVars, loopVars>>

\* "Too many options specified".
TooMany ==
    /\ saPc \in {"file", "argv"} /\ unread # <<>> /\ OptionAccepted(Head(unread))
    /\ Len(SetOption(Head(unread))) > MaxOptions
    /\ ProcessExits

FileRead ==
    /\ saPc = "file" /\ unread = <<>> /\ saPc' = "argv" /\ unread' = cmdLine
    /\ UNCHANGED <<sourceVars, opts, givenOptions, g_add_domain, serverVars, loopVars>>

\* sanitize_options finds every path, or the process dies.
Sanitized ==
    /\ saPc = "argv" /\ unread = <<>> /\ saPc' = "start"
    /\ UNCHANGED <<sourceVars, unread, opts, givenOptions, g_add_domain, serverVars, loopVars>>

InvalidOptions == saPc = "argv" /\ unread = <<>> /\ ProcessExits

-----------------------------------------------------------------------------
(* The server *)

\* mg_start2 returns a context; the options are freed and the domains follow.
ServerStarted ==
    /\ saPc = "start" /\ saPc' = "domains"
    /\ g_ctx' = "live" /\ servers' = servers + 1 /\ loadedDomains' = {} /\ unread' = g_add_domain
    /\ opts' = <<>> /\ givenOptions' = NothingGiven
    /\ UNCHANGED <<sourceVars, g_add_domain, loopVars>>

\* mg_start2 fails: a console program dies, on Windows a message box offers the settings.
ServerStartFails ==
    /\ saPc = "start"
    /\ \/ hostKind = "console" /\ ProcessExits
       \/ /\ hostKind # "console" /\ saPc' = "pump" /\ g_ctx' = "null"
          /\ opts' = <<>> /\ givenOptions' = NothingGiven /\ loops' = Append(loops, "failed")
          /\ UNCHANGED <<sourceVars, unread, g_add_domain, loadedDomains, servers, saveDisabled, g_exit_flag>>

\* mg_start_domain refuses a domain that the context has already, and that is fatal.
LoadDomain ==
    /\ saPc = "domains" /\ unread # <<>>
    /\ \/ /\ Head(unread) \notin loadedDomains
          /\ loadedDomains' = loadedDomains \cup {Head(unread)} /\ unread' = Tail(unread)
          /\ UNCHANGED <<sourceVars, saPc, opts, givenOptions, g_add_domain, g_ctx, servers, loopVars>>
       \/ ProcessExits

\* start_civetweb returns; the save button that called it is enabled again.
StartReturns ==
    /\ saPc = "domains" /\ unread = <<>> /\ saPc' = "pump" /\ saveDisabled' = FALSE
    /\ UNCHANGED <<sourceVars, unread, opts, givenOptions, g_add_domain, serverVars, loops, g_exit_flag>>

\* mg_stop of the context, which may be NULL; the pointer keeps its value.
StopCivetweb ==
    /\ g_ctx' = IF g_ctx = "null" THEN "null" ELSE "freed"
    /\ servers' = IF g_ctx = "live" THEN servers - 1 ELSE servers
    /\ loadedDomains' = {}

-----------------------------------------------------------------------------
(* Console and service *)

LoopIdle(h) == hostKind = h /\ saPc = "pump" /\ loops = <<"loop">>

\* SIGINT or SIGTERM; the service manager's stop or shutdown.
StopSignal ==
    /\ hostKind \in {"console", "service"} /\ ~g_exit_flag /\ saPc # "off" /\ g_exit_flag' = TRUE
    /\ hostKind = "service" => LoopIdle("service")
    /\ UNCHANGED <<sourceVars, saPc, unread, opts, givenOptions, g_add_domain, serverVars, loops, saveDisabled>>

MainEnds == (LoopIdle("console") \/ LoopIdle("service")) /\ g_exit_flag /\ ProcessExits

-----------------------------------------------------------------------------
(* The tray icon's menu and the dialogs *)

TopFrame     == loops[Len(loops)]
Pumping      == hostKind \in {"gui", "service"} /\ saPc = "pump"
\* The static guard of a dialog; "retry" is the settings dialog that a failed start opened.
Guarded(d) == \E i \in DOMAIN loops : loops[i] = d \/ (d = "settings" /\ loops[i] = "retry")
PoppedFrames == SubSeq(loops, 1, Len(loops) - 1)

\* DialogBoxIndirectParam: a message loop of its own; the guard admits one dialog of each kind.
OpenDialog(d) ==
    /\ Pumping /\ hostKind = "gui" /\ TopFrame # "failed" /\ ~g_exit_flag /\ ~Guarded(d)
    /\ loops' = Append(loops, d)
    /\ UNCHANGED <<sourceVars, saPc, unread, opts, givenOptions, g_add_domain, serverVars,
                   saveDisabled, g_exit_flag>>

show_settings_dialog == OpenDialog("settings")
change_password_file == OpenDialog("password")
show_system_info     == OpenDialog("sysinfo")

\* Asked for by the buttons of the password dialog.
get_password == Guarded("password") /\ OpenDialog("input")

\* The innermost dialog is closed and its call returns.
CloseDialog(d) ==
    /\ Pumping /\ TopFrame = d /\ loops' = PoppedFrames
    /\ UNCHANGED <<sourceVars, saPc, unread, opts, givenOptions, g_add_domain, serverVars,
                   saveDisabled, g_exit_flag>>

SettingsClosed == ~saveDisabled /\ CloseDialog("settings")
InputClosed    == CloseDialog("input")
PasswordClosed == CloseDialog("password")
SysinfoClosed  == CloseDialog("sysinfo")

\* Mutant: the running server is not stopped before the new one is started.
SaveSettingsNoStop ==
    /\ Pumping /\ Guarded("settings") /\ ~saveDisabled
    /\ confFile' = SelectSeq(confFile, LAMBDA e : e.name \in DOMAIN optionType)
    /\ BeginOptions /\ saveDisabled' = TRUE
    /\ UNCHANGED <<hostKind, cmdLine, g_add_domain, serverVars, loops, g_exit_flag>>

\* ID_SAVE: save_config writes the options of the server, not those of main.c; then the
\* server is stopped and started again.
SaveSettings ==
    /\ Pumping /\ Guarded("settings") /\ ~saveDisabled
    /\ confFile' = SelectSeq(confFile, LAMBDA e : e.name \in DOMAIN optionType)
    /\ StopCivetweb
    /\ BeginOptions /\ saveDisabled' = TRUE
    /\ UNCHANGED <<hostKind, cmdLine, g_add_domain, loops, g_exit_flag>>

\* "Edit settings?" answered with yes: the dialog, unless it is open already.
EditSettings ==
    /\ Pumping /\ TopFrame = "failed"
    /\ IF Guarded("settings")
       THEN ProcessExits
       ELSE /\ loops' = Append(PoppedFrames, "retry") /\ saveDisabled' = FALSE
            /\ UNCHANGED <<sourceVars, saPc, unread, opts, givenOptions, g_add_domain, serverVars, g_exit_flag>>

NoSettings == Pumping /\ TopFrame = "failed" /\ ProcessExits

\* That dialog is closed: start_civetweb returns when a save has started the server.
RetryReturns ==
    /\ Pumping /\ TopFrame = "retry" /\ ~saveDisabled
    /\ IF g_ctx = "null" THEN ProcessExits
       ELSE /\ loops' = PoppedFrames
            /\ UNCHANGED <<sourceVars, saPc, unread, opts, givenOptions, g_add_domain, serverVars, saveDisabled, g_exit_flag>>

\* ID_QUIT and WM_CLOSE: the server is stopped and the quit message is posted; commands
\* that are queued before it are still dispatched.
QuitCommand ==
    /\ Pumping /\ hostKind = "gui"
    /\ StopCivetweb /\ g_exit_flag' = TRUE
    /\ UNCHANGED <<sourceVars, saPc, unread, opts, givenOptions, g_add_domain, loops, saveDisabled>>

\* WM_QUIT ends the loops, from the innermost to WinMain's.
QuitReceived == hostKind = "gui" /\ saPc = "pump" /\ g_exit_flag /\ ProcessExits

SaNext ==
    \/ \E h \in {"console", "service", "gui"}, f, a \in OptionLines : LaunchProcess(h, f, a)
    \/ EndsAtOnce \/ ReadOption \/ TooMany \/ FileRead \/ Sanitized \/ InvalidOptions
    \/ ServerStarted \/ ServerStartFails \/ LoadDomain \/ StartReturns
    \/ StopSignal \/ MainEnds
    \/ show_settings_dialog \/ change_password_file \/ get_password \/ show_system_info
    \/ SettingsClosed \/ PasswordClosed \/ InputClosed \/ SysinfoClosed
    \/ SaveSettings \/ EditSettings \/ NoSettings \/ RetryReturns \/ QuitCommand \/ QuitReceived

SaSpec == SaInit /\ [][SaNext]_saVars

-----------------------------------------------------------------------------
(* Properties *)

\* The options that reach mg_start2 are what the accepted entries say, in their order (main.c
\* set_option): each option is in the array once, a list option has every value that was
\* given, any other one has the last.
OptionsExact ==
    \A n \in DOMAIN optionType :
        LET values == givenOptions[n]
        IN  /\ \A i, j \in OptionIndex(n) : i = j
            /\ OptionIndex(n) = {} <=> values = <<>>
            /\ \A i \in OptionIndex(n) :
                 opts[i].value = IF optionType[n] = "list" THEN values ELSE <<values[Len(values)]>>

\* However the dialogs, the message boxes and the menu's commands nest (main.c WindowProc,
\* SettingsDlgProc, start_civetweb), the process never runs two servers at a time.
OneServer == servers <= 1

\* "Handle command line flags.  They override config file and default settings" (main.c:804).
\* It does not hold of the options that are lists.
CommandLineOverrides ==
    saPc = "start" =>
        \A k \in DOMAIN cmdLine : \A i \in OptionIndex(cmdLine[k].name) :
            OptionAccepted(cmdLine[k]) => \A v \in DOMAIN opts[i].value :
                \E l \in DOMAIN cmdLine : cmdLine[l].name = cmdLine[k].name /\ cmdLine[l].value = opts[i].value[v]

\* The server runs with the options that the accepted entries give, each once, and however
\* dialogs and commands nest there is never a second server (main.c).
StandAloneExact == OptionsExact /\ OneServer
=============================================================================
