--------------------------- MODULE TelegramDialog ---------------------------
(***************************************************************************)
(* What the composite Telegram calls of telegram_adapter.TelegramActions   *)
(* and restriction_actions.RestrictionActions leave behind.  Each of them  *)
(* is a sequence of Telegram requests any of which can fail, so each is    *)
(* the set of results [ok, dialog, snap] it can end with; and, for a       *)
(* process that dies between two requests, the set of results it can be    *)
(* interrupted in.  snap is the row of dialog_snapshots or NoSnapshot.     *)
(***************************************************************************)
EXTENDS Integers

CONSTANT NoSnapshot   \* no row in dialog_snapshots

\* The two settings of a dialog the gatekeeper changes.
Dialog == [folder : {"main", "archive"}, muted : BOOLEAN]
MainDialog == [folder |-> "main", muted |-> FALSE]
Confined == [folder |-> "archive", muted |-> TRUE]
Snapshot == Dialog \cup {NoSnapshot}

ASSUME SnapshotAssumption == NoSnapshot \notin Dialog

Result(ok, d, sn) == [ok |-> ok, dialog |-> d, snap |-> sn]
InFolder(d, folder) == [d EXCEPT !.folder = folder]

\* save_dialog_snapshot is INSERT OR IGNORE after a check for an older row.
SavedSnapshot(d, sn) == IF sn = NoSnapshot THEN d ELSE sn

\* Without a snapshot a dialog is restored to the main folder, unmuted.
RestoreTarget(sn) == IF sn = NoSnapshot THEN MainDialog ELSE sn

\* Mutant: the snapshot is dropped before the requests it is needed for.
RestoreDropsFirst(d, sn) ==
  LET t == RestoreTarget(sn)
  IN  {Result(TRUE, t, NoSnapshot),
       Result(FALSE, d, NoSnapshot),
       Result(FALSE, InFolder(d, t.folder), NoSnapshot)}

\* restore_from_pending and restore_dialog: move the dialog back, set its
\* notifications back, drop the snapshot.  A retry starts over, so the retried
\* call ends in one of the same results.
Restore(d, sn) ==
  LET t == RestoreTarget(sn)
  IN  {Result(TRUE, t, NoSnapshot),
       Result(FALSE, d, sn),
       Result(FALSE, InFolder(d, t.folder), sn)}

\* archive_and_mute: save a snapshot, archive, mute; when muting fails the
\* archive step is undone by one call of restore_from_pending whose own result
\* is not looked at.
ArchiveAndMute(d, sn) ==
  LET saved == SavedSnapshot(d, sn)
  IN  {Result(TRUE, Confined, saved),
       Result(FALSE, d, sn),
       Result(FALSE, d, saved)}
      \cup {Result(FALSE, u.dialog, u.snap) :
              u \in Restore(InFolder(d, "archive"), saved)}

\* delete_dialog: Telegram drops the conversation, which would reopen in the
\* main folder; the snapshot goes with it.
DeleteDialog(d, sn) ==
  {Result(TRUE, InFolder(d, "main"), NoSnapshot), Result(FALSE, d, sn)}

\* The states the process can die in during each of the calls, or right after it:
\* the snapshot is dropped in a transaction of its own.
CutRestore(d, sn) ==
  LET t == RestoreTarget(sn)
  IN  {Result(FALSE, d, sn), Result(FALSE, InFolder(d, t.folder), sn),
       Result(FALSE, t, sn), Result(FALSE, t, NoSnapshot)}

CutArchive(d, sn) ==
  LET saved == SavedSnapshot(d, sn)
  IN  {Result(FALSE, d, sn), Result(FALSE, d, saved),
       Result(FALSE, Confined, saved)}
      \cup CutRestore(InFolder(d, "archive"), saved)

CutDelete(d, sn) ==
  {Result(FALSE, d, sn), Result(FALSE, InFolder(d, "main"), sn),
   Result(FALSE, InFolder(d, "main"), NoSnapshot)}
=============================================================================
