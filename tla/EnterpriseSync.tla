--------------------------- MODULE EnterpriseSync ---------------------------
(***************************************************************************)
(* The enterprise sync store (core/enterprise_sync): a table of metadata   *)
(* rows and a directory of files, one file per object uid.                 *)
(*                                                                         *)
(* The two are written one after the other and nothing ties them together: *)
(* PrimaryKey is an ordinary column (the key of the table is an            *)
(* autoincremented id), so saving the same uid twice leaves two rows and   *)
(* one file, and a query by uid or by hash returns the oldest row.  The    *)
(* rows are therefore a sequence, in the order of their ids.               *)
(*                                                                         *)
(* Every action below is one commit or one file operation; the operations  *)
(* of the component are sequences of them (see TakApi), and another        *)
(* routing worker may run between two of them.                             *)
(***************************************************************************)
EXTENDS Naturals, Sequences, SequencesExt

CONSTANTS Uids,      \* object uids
          Data,      \* what a file can hold; sha256 is injective here, so the
                     \* hash of a file is modelled by the file itself
          NoData     \* no file; no uid, no hash given

ASSUME NoDataAssumption == NoData \notin Data \cup Uids

VARIABLES rows,      \* sequence of metadata rows
          files      \* the directory: a function from uids to contents

esVars == <<rows, files>>

Row == [uid : Uids, hash : Data, zip : BOOLEAN, private : 0..1]

EsTypeOK == /\ rows \in Seq(Row)
            /\ files \in [Uids -> Data \cup {NoData}]

EsInit == rows = <<>> /\ files = [u \in Uids |-> NoData]

-----------------------------------------------------------------------------
(* Queries. *)

\* .filter(PrimaryKey == uid).first() and .filter(hash == h).first(): the number
\* of the oldest row that matches, if any does, as a set of at most one number.
FirstOf(hits) == {i \in hits : \A j \in hits : i <= j}

ByUid(u) == FirstOf({i \in DOMAIN rows : rows[i].uid = u})

ByHash(h) == FirstOf({i \in DOMAIN rows : rows[i].hash = h})

\* get_enterprise_sync_data_object: the uid is tried before the hash; the
\* result is a set of at most one row (None is the empty one).
get_enterprise_sync_data_object(uid, hash) ==
  {rows[i] : i \in IF ByUid(uid) # {} THEN ByUid(uid) ELSE ByHash(hash)}

\* GetEnterpriseSyncMetaData as the mission builders call it: the same name
\* is given as uid and as hash.
HasMetadata(x) == get_enterprise_sync_data_object(x, x) # {}

\* What get_multiple_enterprise_sync_metadata adds to its list for one hash:
\* nothing if the object is absent.
MetadataOf(h) == get_enterprise_sync_data_object(NoData, h)

\* What get_multiple_enterprise_sync_data adds to its list for one hash: an
\* object whose row or whose file is missing raises inside the loop and is
\* skipped as well, so this list can be shorter than the list of metadata.
DataOf(h) == {files[r.uid] : r \in get_enterprise_sync_data_object(NoData, h)} \ {NoData}

\* get_enterprise_sync_data by uid finds a row and its file
Readable(u) == \E r \in get_enterprise_sync_data_object(u, NoData) : files[r.uid] # NoData

-----------------------------------------------------------------------------
(* One commit, or one file operation, each. *)

save_file(u, d) == files' = [files EXCEPT ![u] = d] /\ UNCHANGED rows

delete_file(u) == files' = [files EXCEPT ![u] = NoData] /\ UNCHANGED rows

create_enterprise_sync_data_object(r) == rows' = Append(rows, r) /\ UNCHANGED files

\* update_enterprise_sync_object: the oldest row with this uid.  The default of
\* the parameter "private" is 0 and not None, so an update that says nothing
\* about privacy makes the object public.
update_enterprise_sync_object(u, h, p) ==
  /\ UNCHANGED files
  /\ \/ \E i \in ByUid(u) :
          LET hash == IF h = NoData THEN rows[i].hash ELSE h
          IN rows' = [rows EXCEPT ![i] = [rows[i] EXCEPT !.hash = hash, !.private = p]]
     \/ ByUid(u) = {} /\ UNCHANGED rows

delete_enterprise_sync_object(h) ==
  /\ \E i \in ByHash(h) : rows' = RemoveAt(rows, i)
  /\ UNCHANGED files
=============================================================================
