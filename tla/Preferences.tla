---------------------------- MODULE Preferences -----------------------------
(***************************************************************************)
(* The settings of one user (SettingsService): user_settings, a value per  *)
(* key, and notification_settings, three columns per type.  Both are       *)
(* written in the same way: the rows of the keys that a request names are  *)
(* read, then each entry updates its row, or inserts one if none was read, *)
(* and the table is read again for the answer.  No index keeps keys apart. *)
(***************************************************************************)
EXTENDS Naturals, Sequences, SequencesExt

CONSTANTS
  NumRequests,      \* requests, numbered in the order of arrival
  Settings, Types,  \* keys of user_settings, and types of notifications
  Changes(_),       \* what each request may ask: sequences of entries
  AsTime(_),        \* what a time column makes of a text: "22:00" is 22:00:00
  NoTime,           \* AsTime of a text that is no time
  Null

Requests == 1 .. NumRequests
Keys == Settings \cup Types

\* UserSetting and NotificationSetting.
ColumnsOf(k) == IF k \in Settings THEN {"value"} ELSE {"isEnabled", "quietStart", "quietEnd"}

\* A column that an INSERT is not given.
Default(c) == IF c = "isEnabled" THEN TRUE ELSE Null

\* An entry is a key and the columns that the body gives.  What it leaves out is
\* null for a setting, and skipped by save for a notification.
Given(entry) == IF entry.key \in Settings /\ DOMAIN entry.columns = {}
                THEN [value |-> Null] ELSE entry.columns

\* quietStart and quietEnd are of the type time.
Stored(c, v) == IF c \in {"quietStart", "quietEnd"} /\ v # Null THEN AsTime(v) ELSE v

VARIABLES
  at,        \* where each request is
  change,    \* its entries, those not yet saved
  asked,     \* its entries, all of them
  code,      \* the status code of its answer; 0: none
  met,       \* the requests that were in flight together with it
  existing,  \* existingMap: the row it read for each key; 0: none
  selected,  \* the columns of the row that a save compares with
  rows,      \* both tables, in the order of the insertions
  listed,    \* the rows in its answer
  before     \* the rows when it arrived

vars == <<at, change, asked, code, met, existing, selected, rows, listed, before>>

NoRows == [k \in Keys |-> 0]

Init ==
  /\ at = [r \in Requests |-> "idle"]
  /\ change = [r \in Requests |-> <<>>]
  /\ asked = [r \in Requests |-> <<>>]
  /\ code = [r \in Requests |-> 0]
  /\ met = [r \in Requests |-> {}]
  /\ existing = [r \in Requests |-> NoRows]
  /\ selected = [r \in Requests |-> <<>>]
  /\ rows = <<>>
  /\ listed = [r \in Requests |-> {}]
  /\ before = [r \in Requests |-> <<>>]

IdsOf(k) == {i \in DOMAIN rows : rows[i].key = k}
InFlight == {r \in Requests : at[r] \notin {"idle", "done"}}

Goes(r, from, to) == at[r] = from /\ at' = [at EXCEPT ![r] = to]

Arrive(r, entries) ==
  /\ \A q \in Requests : q < r => at[q] # "idle"
  /\ Goes(r, "idle", "find")
  /\ change' = [change EXCEPT ![r] = entries]
  /\ asked' = [asked EXCEPT ![r] = entries]
  /\ met' = [q \in Requests |-> IF q = r THEN InFlight
                                ELSE IF q \in InFlight THEN met[q] \cup {r} ELSE met[q]]
  /\ before' = [before EXCEPT ![r] = rows]
  /\ UNCHANGED <<code, existing, selected, rows, listed>>

\* Of several rows of a key, any may come last and end up in the map.
FindExisting(r) ==
  /\ Goes(r, "find", "next")
  /\ \E found \in [Keys -> 0 .. Len(rows)] :
       /\ \A k \in Keys : IF k \in {e.key : e \in Range(asked[r])} /\ IdsOf(k) # {}
                          THEN found[k] \in IdsOf(k) ELSE found[k] = 0
       /\ existing' = [existing EXCEPT ![r] = found]
  /\ UNCHANGED <<change, asked, code, met, selected, rows, listed, before>>

Entry(r) == Head(change[r])
RowOf(r) == existing[r][Entry(r).key]

\* Faulty: only columns without a value are written.
WrittenIfNull(r) == {c \in DOMAIN Given(Entry(r)) : selected[r][c] = Null}

\* An entry assigns every column of its entity, so save writes those that are
\* not undefined and differ, as they were given, from the row that it reads first ...
Written(r) == {c \in DOMAIN Given(Entry(r)) : Given(Entry(r))[c] # selected[r][c]}

SaveSelect(r) ==
  /\ change[r] # <<>>
  /\ RowOf(r) # 0
  /\ Goes(r, "next", "update")
  /\ selected' = [selected EXCEPT ![r] = rows[RowOf(r)].columns]
  /\ UNCHANGED <<change, asked, code, met, existing, rows, listed, before>>

\* ... in a second statement, which fails if it writes a text that is no time.
SaveUpdate(r) ==
  /\ Goes(r, "update", "next")
  /\ \A c \in Written(r) : Stored(c, Given(Entry(r))[c]) # NoTime
  /\ rows' = [rows EXCEPT ![RowOf(r)].columns =
       [c \in DOMAIN @ |-> IF c \in Written(r) THEN Stored(c, Given(Entry(r))[c]) ELSE @[c]]]
  /\ change' = [change EXCEPT ![r] = Tail(@)]
  /\ selected' = [selected EXCEPT ![r] = <<>>]
  /\ UNCHANGED <<asked, code, met, existing, listed, before>>

\* Faulty: a row is inserted for every entry.
MissingAlways(r, k) == TRUE

Missing(r, k) == existing[r][k] = 0

SaveInsert(r) ==
  /\ change[r] # <<>>
  /\ Missing(r, Entry(r).key)
  /\ Goes(r, "next", "next")
  /\ LET given == Given(Entry(r))
     IN /\ \A c \in DOMAIN given : Stored(c, given[c]) # NoTime
        /\ rows' = Append(rows, [key |-> Entry(r).key, by |-> r, columns |->
             [c \in ColumnsOf(Entry(r).key) |->
                IF c \in DOMAIN given THEN Stored(c, given[c]) ELSE Default(c)]])
  /\ change' = [change EXCEPT ![r] = Tail(@)]
  /\ UNCHANGED <<asked, code, met, existing, selected, listed, before>>

\* listUserSettings, listNotificationSettings.
List(r) ==
  /\ change[r] = <<>>
  /\ Goes(r, "next", "done")
  /\ code' = [code EXCEPT ![r] = 200]
  /\ listed' = [listed EXCEPT ![r] = Range(rows)]
  /\ existing' = [existing EXCEPT ![r] = NoRows]
  /\ UNCHANGED <<change, asked, met, selected, rows, before>>

\* A statement fails; the entries before it stay saved.
Fail(r) ==
  /\ \E step \in {"find", "next", "update"} : Goes(r, step, "done")
  /\ code' = [code EXCEPT ![r] = 500]
  /\ existing' = [existing EXCEPT ![r] = NoRows]
  /\ selected' = [selected EXCEPT ![r] = <<>>]
  /\ UNCHANGED <<change, asked, met, rows, listed, before>>

Next ==
  \E r \in Requests :
    \/ \E entries \in Changes(r) : Arrive(r, entries)
    \/ FindExisting(r) \/ SaveSelect(r) \/ SaveUpdate(r) \/ SaveInsert(r)
    \/ List(r) \/ Fail(r)

Spec == Init /\ [][Next]_vars

-----------------------------------------------------------------------------
TypeOK ==
  /\ at \in [Requests -> {"idle", "find", "next", "update", "done"}]
  /\ \A r \in Requests : IsSuffix(change[r], asked[r])
  /\ \A i \in DOMAIN rows : rows[i].key \in Keys /\ DOMAIN rows[i].columns = ColumnsOf(rows[i].key)
  /\ code \in [Requests -> {0, 200, 500}]

Twice(r, k) == \E i, j \in DOMAIN asked[r] : i # j /\ asked[r][i].key = k /\ asked[r][j].key = k

\* A key has two rows only if two requests that inserted them were in flight
\* together, or one request named it twice (updateUserSettings and
\* updateNotificationSettings, which no unique index protects).
OneRowPerKey ==
  \A i, j \in DOMAIN rows : i < j /\ rows[i].key = rows[j].key =>
    \/ rows[j].by \in met[rows[i].by]
    \/ rows[i].by = rows[j].by /\ Twice(rows[i].by, rows[i].key)

\* The rows of a key when a request arrived; the defaults if there was none.
Old(r, k) ==
  LET ids == {i \in DOMAIN before[r] : before[r][i].key = k}
  IN IF ids = {} THEN {[c \in ColumnsOf(k) |-> Default(c)]} ELSE {before[r][i].columns : i \in ids}

\* A row is what an entry makes of one that was there, or of none.
Follows(r, row, entry) ==
  /\ row.key = entry.key
  /\ \E old \in Old(r, entry.key) : \A c \in ColumnsOf(entry.key) :
       row.columns[c] = IF c \in DOMAIN Given(entry) THEN Stored(c, Given(entry)[c]) ELSE old[c]

\* A request that no other one met, and that no statement failed, is answered with
\* a row for every key that it names once: each column that it gave is there as
\* PostgreSQL stores it, and each that it left out is as it was, or the default of
\* a new row.
ReadsBack ==
  \A r \in Requests : code[r] = 200 /\ met[r] = {} =>
    \A i \in DOMAIN asked[r] : ~Twice(r, asked[r][i].key) =>
      \E row \in listed[r] : Follows(r, row, asked[r][i])
=============================================================================
