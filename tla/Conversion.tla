----------------------------- MODULE Conversion -----------------------------
(***************************************************************************)
(* How a message becomes a task (src/src/utils/converter.rs) and a device  *)
(* gives its key (src/src/messenger/encryption.rs): not what the bytes     *)
(* say, but which of their shapes end in a value, an error or a panic.     *)
(* Sizes are in bytes, after base64.                                       *)
(***************************************************************************)
EXTENDS Naturals

NonceLength == 24
TagLength == 16
KeyLength == 32

(* CEKData: the size of the header and of the encrypted key, and whether   *)
(* the key was encrypted for this device.                                  *)
Devices == [base64 : BOOLEAN, header : {39, 40, 71, 72, 73}, key : {0, 31, 32},
            sealed : BOOLEAN]

(* decrypt_cek: the header is sliced at fixed positions, what is left of   *)
(* it must be a public key, and the key must be authentic.                 *)
DecryptCek(d) ==
  IF ~d.base64 THEN "error"
  ELSE IF d.header < NonceLength + TagLength THEN "panics"
  ELSE IF d.header # NonceLength + TagLength + 32 \/ ~d.sealed THEN "error"
  ELSE "ok"

(* The content of a message: its size, whether it was encrypted with the   *)
(* channel's key, and what it says.                                        *)
Messages == [base64 : BOOLEAN, size : {0, 23, 24, 39, 40, 80}, sealed : BOOLEAN,
             text : {"not UTF-8", "not JSON", "no object", "object"},
             task : {"none", "no string", "string"},
             action : {"skip", "other"}]

(* decrypt_message, with a key of some length: nonce, tag and ciphertext   *)
(* are slices, and Key::from_slice asserts the length of the key.          *)
DecryptMessage(m, key) ==
  IF ~m.base64 THEN "error"
  ELSE IF m.size < NonceLength + TagLength \/ key # KeyLength THEN "panics"
  ELSE IF ~m.sealed THEN "error"
  ELSE "ok"

(* convert_message_to_task and is_skipped.                                 *)
Convert(m, key) ==
  IF DecryptMessage(m, key) # "ok"
    THEN IF DecryptMessage(m, key) = "panics" THEN "panics" ELSE "bad"
  ELSE IF m.text # "object" \/ m.task = "none" THEN "bad"
  ELSE IF m.task = "no string" THEN "panics"
  ELSE IF m.action = "skip" THEN "skip"
  ELSE "run"
=============================================================================
