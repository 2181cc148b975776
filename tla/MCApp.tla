-------------------------------- MODULE MCApp --------------------------------
(***************************************************************************)
(* Instances of the modules about requests of the app for TLC, side by     *)
(* side: they share no state that one changes for another, so a behaviour  *)
(* is one of a single module, as `area' says from the start.  The progress *)
(* of requests, at, code and met, is the same variable for all.            *)
(***************************************************************************)
EXTENDS Integers, Sequences, TLC

CONSTANTS
  NumRequests,
  Settings, Types, Changes(_), Null,                  \* Preferences
  AsTime(_), NoTime,
  Options, AttributeOf, Wishes(_),                    \* Character
  Calls(_), Configs, MaxTime, NaN,                    \* Accounts
  Users, Orders(_), QuickCommands, MaxPairings, None  \* Chat

VARIABLES
  area, at, code, met,
  change, asked, existing, selected, rows, listed, before,
  wish, chosen, character, loaded, selectedCharacter, characters, attributes,
  call, user, known, since, users, names, tokens, config, now,
  order, owner, pairings, messages, heard, commands, jobs, history, told

progress == <<at, code, met>>
preferences == <<change, asked, existing, selected, rows, listed, before>>
wardrobe == <<wish, chosen, character, loaded, selectedCharacter, characters, attributes>>
accounts == <<call, user, known, since, users, names, tokens, config, now>>
talk == <<order, owner, pairings, messages, heard, commands, jobs, history, told>>
vars == <<area, progress, preferences, wardrobe, accounts, talk>>

Pref == INSTANCE Preferences
Char == INSTANCE Character WITH selected <- selectedCharacter
Acct == INSTANCE Accounts
Talk == INSTANCE Chat

ASSUME RequestsAssumption == NumRequests \in Nat
\* An entry names a key, and columns of its entity.
ASSUME ChangesAssumption ==
  \A r \in Pref!Requests : \A entries \in Changes(r) :
    /\ entries \in Seq(Pref!Range(entries))
    /\ \A e \in Pref!Range(entries) :
         e.key \in Pref!Keys /\ DOMAIN e.columns \subseteq Pref!ColumnsOf(e.key)
\* A time that was stored is not changed when it is stored again.
ASSUME TimesAssumption ==
  \A r \in Pref!Requests : \A entries \in Changes(r) : \A e \in Pref!Range(entries) :
    \A c \in DOMAIN e.columns :
      LET stored == Pref!Stored(c, e.columns[c])
      IN stored # NoTime => Pref!Stored(c, stored) = stored
ASSUME ConfigsAssumption ==
  NaN \notin Int /\ \A c \in Configs, kind \in {"access", "refresh"} : c[kind].number \in Int \cup {NaN}
ASSUME OrdersAssumption == \A r \in Talk!Requests : Orders(r) \subseteq Talk!Order
ASSUME WishesAssumption == \A r \in Char!Requests : Wishes(r) \subseteq Char!Wish

AppInit ==
  /\ area \in {"preferences", "character", "accounts", "chat"}
  /\ Pref!Init /\ Char!Init /\ Acct!Init /\ Talk!Init
  /\ area # "accounts" => config = CHOOSE c \in Configs : TRUE

AppNext ==
  /\ UNCHANGED area
  /\ \/ area = "preferences" /\ Pref!Next /\ UNCHANGED <<wardrobe, accounts, talk>>
     \/ area = "character" /\ Char!Next /\ UNCHANGED <<preferences, accounts, talk>>
     \/ area = "accounts" /\ Acct!Next /\ UNCHANGED <<met, preferences, wardrobe, talk>>
     \/ area = "chat" /\ Talk!Next /\ UNCHANGED <<met, preferences, wardrobe, accounts>>

AppSpec == AppInit /\ [][AppNext]_vars

AppTypeOK ==
  CASE area = "preferences" -> Pref!TypeOK
    [] area = "character" -> Char!TypeOK
    [] area = "accounts" -> Acct!TypeOK
    [] OTHER -> Talk!TypeOK

OneRowPerKey == area = "preferences" => Pref!OneRowPerKey
ReadsBack == area = "preferences" => Pref!ReadsBack
CharacterWhole == area = "character" => Char!CharacterWhole
AccountIsItsOwners == area = "accounts" => Acct!AccountIsItsOwners
CommandFollowsMessage == area = "chat" => Talk!CommandFollowsMessage

-----------------------------------------------------------------------------
(* The instance.                                                           *)

Value(k, v) == [key |-> k, columns |-> IF v = "undefined" THEN <<>> ELSE [value |-> v]]
Notification(t, on, quiet) ==
  [key |-> t, columns |-> [isEnabled |-> on] @@
     IF quiet = Null THEN <<>> ELSE [quietStart |-> quiet, quietEnd |-> quiet]]

AppAsTime(text) == IF text \in {"22:00", "22:00:00"} THEN "22:00:00" ELSE NoTime

\* A value, none and then another for one key; all columns of a notification, with a
\* time in short, in full or that is no time, or one.
AppChanges(r) ==
  {<<Value("color", "blue")>>,
   <<Value("color", "undefined"), Value("color", "red")>>,
   <<Notification("CLEANING", FALSE, Null)>>}
  \cup {<<Notification("CLEANING", TRUE, quiet)>> : quiet \in
             CASE r = 1 -> {"22:00"} [] r = 2 -> {"22:00", "late"} [] OTHER -> {"22:00:00"}}

\* Two faces and a hat; the first wish may be in vain.
AppAttributeOf == [o1 |-> "face", o2 |-> "face", o3 |-> "hat"]
AppOptions == DOMAIN AppAttributeOf
AppWishes(r) ==
  IF r = 1 THEN [options : {{"o1", "o2"}, {"unknown"}}, makeCurrent : {FALSE}]
           ELSE [options : {{"o2", "o3"}}, makeCurrent : BOOLEAN]

AppCalls(r) ==
  [kind : {"register", "login"}, email : {"e"}, password : {"p", "q"}]
  \cup [kind : {"refresh", "rename"}]

\* Lifetimes in seconds, in minutes, without a unit, and of a unit nobody knows.
AppConfigs ==
  {[access |-> [number |-> 1, unit |-> "s"], refresh |-> [number |-> 2, unit |-> ""]],
   [access |-> [number |-> 15, unit |-> "m"], refresh |-> [number |-> NaN, unit |-> "week"]]}

QuickCommand(n, a, on) == [namespace |-> n, action |-> a, isActive |-> on]
AppQuickCommands ==
  {QuickCommand("device", "start", TRUE), QuickCommand("device", "stop", FALSE),
   QuickCommand("other", "other", TRUE)}

\* The last request reads the history.
AppOrders(r) ==
  IF r = NumRequests
  THEN [kind : {"list"}, user : Users, limit : {1, 50}]
  ELSE [kind : {"message"}, user : Users]
       \cup [kind : {"quick"}, user : Users, command : QuickCommands]
=============================================================================
