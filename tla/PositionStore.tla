---------------------------- MODULE PositionStore ----------------------------
(***************************************************************************)
(* Tables stock_positions (entity/stock_position.go, migrations/000005)    *)
(* and users as the execution service uses them                            *)
(* (stock_positions_repository.go).  Users open, change and close          *)
(* positions through the Telegram bot, which is another program on the     *)
(* same database.                                                          *)
(*                                                                         *)
(* Columns no decision depends on are left out, last_price_alert_at and    *)
(* last_monitor_position_at among them: they are only written here.        *)
(***************************************************************************)
EXTENDS Integers

CONSTANTS Position,   \* ids of table stock_positions
          User,       \* ids of table users
          OwnerOf,    \* user_id of each position
          Portfolio,  \* the rows a behaviour starts with, Null for no row
          Null,       \* the absence of a row
          MaxPrice    \* bound: prices are 1..MaxPrice, 0 stands for NULL

VARIABLES rows,       \* table stock_positions
          users       \* the users table users has

tables == <<rows, users>>

Price == 0..MaxPrice

Row == [open : BOOLEAN,      \* is_active
        monitored : BOOLEAN, \* monitor_position
        alerted : BOOLEAN,   \* price_alert
        buy : Price,         \* buy_price
        take : Price,        \* take_profit_price
        stop : Price]        \* stop_loss_price

ASSUME PositionAssumption ==
  /\ MaxPrice \in Nat
  /\ Null \notin Row
  /\ OwnerOf \in [Position -> User]
  /\ Portfolio \in [Position -> Row \cup {Null}]

\* A position has an owner: user_id REFERENCES users(id).
RowsTypeOK ==
  /\ rows \in [Position -> Row \cup {Null}] /\ users \subseteq User
  /\ \A p \in Position : rows[p] # Null => OwnerOf[p] \in users

RowsInit == rows = Portfolio /\ users = User

Open(p) == rows[p] # Null /\ rows[p].open

\* Mutant of AlertedRows: a cache of the query's first result
CachedRows ==
  [p \in Position |-> IF Portfolio[p] # Null /\ Portfolio[p].alerted THEN Portfolio[p] ELSE Null]

\* stockPositionsRepository.Get with the filters PriceAlert and IsActive, and
\* with MonitorPosition and IsActive
AlertedRows == [p \in Position |-> IF Open(p) /\ rows[p].alerted THEN rows[p] ELSE Null]
MonitoredRows == [p \in Position |-> IF Open(p) /\ rows[p].monitored THEN rows[p] ELSE Null]

Kept(old, new) == IF new # 0 THEN new ELSE old

\* gorm's Updates with a struct: the columns that are not zero in the copy are
\* written, so that TRUE and prices overwrite the row, FALSE and NULL do not.
Merged(row, copy) ==
  [open |-> row.open \/ copy.open,
   monitored |-> row.monitored \/ copy.monitored,
   alerted |-> row.alerted \/ copy.alerted,
   buy |-> Kept(row.buy, copy.buy),
   take |-> Kept(row.take, copy.take),
   stop |-> Kept(row.stop, copy.stop)]

\* stockPositionsRepository.Update of a copy read earlier, in one transaction:
\* gorm first inserts the user that was loaded with it, unless there is one (ON
\* CONFLICT DO NOTHING), and then updates the row.  When the row is gone none is
\* updated, which is not an error.
WriteBack(p, copy) ==
  /\ users' = users \cup {OwnerOf[p]}
  /\ rows' = IF rows[p] = Null THEN rows ELSE [rows EXCEPT ![p] = Merged(@, copy)]

-----------------------------------------------------------------------------
(* The Telegram bot.                                                       *)

\* A user closes a position.
Close(p) ==
  /\ Open(p)
  /\ rows' = [rows EXCEPT ![p].open = FALSE]
  /\ UNCHANGED users

\* A user moves the stop loss price up to the price the position was bought at.
BreakEven(p) ==
  /\ Open(p) /\ rows[p].stop # rows[p].buy
  /\ rows' = [rows EXCEPT ![p].stop = rows[p].buy]
  /\ UNCHANGED users

PositionsOf(u) == {p \in Position : OwnerOf[p] = u}

\* A user is deleted, and with the user the positions (ON DELETE CASCADE).
RemoveUser(u) ==
  /\ u \in users
  /\ users' = users \ {u}
  /\ rows' = [p \in Position |-> IF p \in PositionsOf(u) THEN Null ELSE rows[p]]
=============================================================================
