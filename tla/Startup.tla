------------------------------ MODULE Startup -------------------------------
(***************************************************************************)
(* How the daemon starts: args_parse of src/args.c over the options that   *)
(* matter to the users and the configuration, and the initialisation in    *)
(* main of src/main.c.  An option is a letter with its argument.           *)
(***************************************************************************)
EXTENDS Users

CONSTANTS
  DEFAULT_BUFFER,    \* io_buffer_size to begin with
  CONFIG_ADMIN_MAX,  \* the longest administrator name and password
  ADMIN              \* the default of both

ASSUME StartupAssumption ==
  DEFAULT_BUFFER \in Nat \ {0} /\ CONFIG_ADMIN_MAX \in Nat /\ ADMIN \in Seq(Nat)

COLON == 58

Option == [letter : {"N", "u", "a"}, arg : Seq(Nat)]

\* "user:pass" in two bounded fields, or nothing.
split_userpass(arg, umax, pmax) ==
  {[name |-> SubSeq(arg, 1, colon - 1), pass |-> SubSeq(arg, colon + 1, Len(arg))] :
     colon \in {i \in 2 .. Len(arg) - 1 :
                  /\ arg[i] = COLON /\ \A j \in 1 .. i - 1 : arg[j] # COLON
                  /\ i - 1 <= umax /\ Len(arg) - i <= pmax}}

NoArgs == [ok |-> TRUE, users |-> <<>>, require_auth |-> FALSE,
           admin |-> [name |-> ADMIN, pass |-> ADMIN]]

\* What one option does to what was parsed so far; exit(1) is ~ok.
TakeOption(args, opt) ==
  LET user  == split_userpass(opt.arg, USERS_MAX_NAME, USERS_MAX_PASS)
      admin == split_userpass(opt.arg, CONFIG_ADMIN_MAX, CONFIG_ADMIN_MAX)
  IN  CASE opt.letter = "N" -> [args EXCEPT !.require_auth = TRUE]
        [] opt.letter = "u" ->
             IF Len(args.users) >= USERS_MAX \/ user = {}
             THEN [args EXCEPT !.ok = FALSE]
             ELSE [args EXCEPT !.users = Append(@, CHOOSE u \in user : TRUE)]
        [] opt.letter = "a" ->
             IF admin = {} THEN [args EXCEPT !.ok = FALSE]
             ELSE [args EXCEPT !.admin = CHOOSE a \in admin : TRUE]

args_parse(options) ==
  LET parsed[i \in 0 .. Len(options)] ==
        IF i = 0 THEN NoArgs
        ELSE IF parsed[i - 1].ok THEN TakeOption(parsed[i - 1], options[i])
        ELSE parsed[i - 1]
  IN  parsed[Len(options)]

\* config_init_defaults, and what main takes over from the arguments.
StartConfig(args) ==
  [io_buffer_size |-> DEFAULT_BUFFER, conn_timeout_secs |-> 0,
   auth_required |-> args.require_auth \/ Len(args.users) > 0,
   admin |-> args.admin]

\* The users of the command line, added in their order.
StartUsers(args) ==
  LET db[i \in 0 .. Len(args.users)] ==
        IF i = 0 THEN users_init
        ELSE users_add(db[i - 1], args.users[i].name, args.users[i].pass).db
  IN  db[Len(args.users)]
=============================================================================
