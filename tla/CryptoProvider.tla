--------------------------- MODULE CryptoProvider ---------------------------
(***************************************************************************)
(* Who frees what: the callbacks of libsignal's crypto provider and of its *)
(* key stores, and the other functions of server.c and of the former       *)
(* server (trash/server2.c) that take several resources in a row, each by  *)
(* a call that may fail.  A function is the sequence of its calls; what a  *)
(* call gets when it succeeds, and what the function frees before it       *)
(* returns an error when it fails.  The last return frees "end"; what is   *)
(* then still held belongs to the caller ("out").                          *)
(***************************************************************************)
EXTENDS Naturals, Sequences

Call(get, err) == [get |-> get, err |-> err]
Proc(calls, end, out) == [calls |-> calls, end |-> end, out |-> out]

-----------------------------------------------------------------------------
(* server.c *)

\* HMAC_CTX_new, HMAC_Init_ex; HMAC_Update; HMAC_Final, signal_buffer_create.
\* An update that fails makes libsignal call crypto_hmac_sha256_cleanup, which
\* frees nothing.
hmac_sha256 ==
  Proc(<<Call({"ctx"}, {}), Call({}, {"ctx"}),
         Call({}, {}),
         Call({}, {"ctx"}), Call({"output"}, {"ctx"})>>, {"ctx"}, {"output"})

\* EVP_CIPHER_CTX_new, then every failure goes to err.
crypto_encrypt_aes_gcm ==
  Proc(<<Call({"ctx"}, {}), Call({}, {"ctx"}), Call({}, {"ctx"}), Call({}, {"ctx"}),
         Call({}, {"ctx"}), Call({}, {"ctx"}), Call({}, {"ctx"})>>, {"ctx"}, {})

crypto_encrypt_chacha20 ==
  Proc(<<Call({"ctx"}, {}), Call({}, {"ctx"}), Call({}, {"ctx"}), Call({}, {"ctx"}),
         Call({}, {"ctx"}), Call({}, {"ctx"})>>, {"ctx"}, {})

crypto_encrypt_aes_cbc ==
  Proc(<<Call({"ctx"}, {}), Call({}, {"ctx"}), Call({}, {"ctx"}), Call({}, {"ctx"}),
         Call({}, {"ctx"})>>, {"ctx"}, {})

\* A copy of crypto_encrypt that forgets the first buffer when the second fails.
CryptoEncryptForgets ==
  Proc(<<Call({"ctx"}, {}), Call({}, {"ctx"}), Call({"buf"}, {"ctx"}),
         Call({}, {"buf", "ctx"}), Call({"final"}, {"ctx"})>>, {"buf", "ctx"}, {"final"})

\* The context, its key, a buffer, update and final, the buffer of the right size.
crypto_encrypt ==
  Proc(<<Call({"ctx"}, {}), Call({}, {"ctx"}), Call({"buf"}, {"ctx"}),
         Call({}, {"buf", "ctx"}), Call({"final"}, {"buf", "ctx"})>>, {"buf", "ctx"}, {"final"})

crypto_decrypt ==
  Proc(<<Call({"ctx"}, {}), Call({}, {"ctx"}), Call({"buf"}, {"ctx"}),
         Call({}, {"buf", "ctx"}), Call({"final"}, {"buf", "ctx"})>>, {"buf", "ctx"}, {"final"})

\* The first serialisation failing as the second one does.
GetKeyFreesPub ==
  Proc(<<Call({"kp"}, {}), Call({"pub"}, {"pub", "kp"}), Call({"priv"}, {"pub", "kp"})>>,
       {"kp"}, {"pub", "priv"})

\* A new key pair, both halves serialised.
identity_key_store_get_key ==
  Proc(<<Call({"kp"}, {}), Call({"pub"}, {"kp"}), Call({"priv"}, {"pub", "kp"})>>,
       {"kp"}, {"pub", "priv"})

\* The store, the identity, the registration id, the session keys.
init_client_signal_protocol ==
  Proc(<<Call({"store"}, {}), Call({"id_pair"}, {"store"}), Call({}, {"id_pair", "store"}),
         Call({}, {"id_pair", "store"})>>, {"id_pair"}, {"store"})

\* The context, a first key pair.
init_enhanced_signal_protocol ==
  Proc(<<Call({"global_ctx"}, {}), Call({"identity_key"}, {"global_ctx"})>>,
       {"identity_key"}, {"global_ctx"})

-----------------------------------------------------------------------------
(* The former server *)

\* EVP_MAC_fetch, EVP_MAC_CTX_new, EVP_MAC_init, the wrapper; the update; in
\* final the digest, EVP_MAC_final and the buffer, whose failures free the wrapper
\* and lose what it points to.
former_hmac_sha256 ==
  Proc(<<Call({"mac"}, {}), Call({"ctx"}, {"mac"}), Call({}, {"ctx", "mac"}),
         Call({"wrapper"}, {"ctx", "mac"}),
         Call({}, {}),
         Call({"md"}, {"wrapper"}), Call({}, {"md", "wrapper"}), Call({"output"}, {"md", "wrapper"})>>,
       {"md", "ctx", "mac", "wrapper"}, {"output"})

former_encrypt_aes_gcm ==
  Proc(<<Call({"ctx"}, {}), Call({}, {"ctx"}), Call({}, {"ctx"}), Call({}, {"ctx"}),
         Call({}, {"ctx"}), Call({}, {"ctx"}), Call({}, {"ctx"})>>, {"ctx"}, {})

former_encrypt_chacha20 ==
  Proc(<<Call({"ctx"}, {}), Call({}, {"ctx"}), Call({}, {"ctx"}), Call({}, {"ctx"})>>, {"ctx"}, {})

\* The ciphertext, then one of the two ciphers (0, 1) or none at all.
encrypt_message_multi_algo ==
  Proc(<<Call({"ciphertext"}, {}), Call({}, {"ciphertext"})>>, {}, {"ciphertext"})

\* The context, the key length, the key, a buffer, update, final, the second buffer.
former_encrypt ==
  Proc(<<Call({"ctx"}, {}), Call({}, {"ctx"}), Call({}, {"ctx"}), Call({"buf"}, {"ctx"}),
         Call({}, {"buf", "ctx"}), Call({}, {"buf", "ctx"}), Call({"final"}, {"buf", "ctx"})>>,
       {"buf", "ctx"}, {"final"})

former_decrypt ==
  Proc(<<Call({"ctx"}, {}), Call({}, {"ctx"}), Call({}, {"ctx"}), Call({"buf"}, {"ctx"}),
         Call({}, {"buf", "ctx"}), Call({}, {"buf", "ctx"}), Call({"final"}, {"buf", "ctx"})>>,
       {"buf", "ctx"}, {"final"})

\* Two buffers, both asked for before either is tested; the one that was allocated
\* is freed when the other failed.
former_get_identity_key_pair ==
  Proc(<<Call({"public"}, {}), Call({"private"}, {"public"})>>, {}, {"public", "private"})

\* The same function for the other outcome: the private buffer is there when the
\* failure of the public one is noticed.
former_get_identity_key_pair_rest ==
  Proc(<<Call({"private"}, {}), Call({"public"}, {"private"})>>, {}, {"public", "private"})

former_signal_protocol_init ==
  Proc(<<Call({"global_context"}, {}), Call({"key_pair"}, {"global_context"})>>,
       {"key_pair"}, {"global_context"})

\* The store and its four tables, the identity, the registration id, the pre-keys,
\* the signed pre-key: "goto error" destroys the store only.
former_init_client_signal_protocol ==
  Proc(<<Call({"store"}, {}), Call({}, {"store"}), Call({}, {"store"}), Call({}, {"store"}),
         Call({}, {"store"}), Call({"identity"}, {"store"}), Call({}, {"store"}),
         Call({"pre_keys"}, {"store"}), Call({"signed"}, {"store"})>>,
       {"identity", "pre_keys", "signed"}, {"store"})

\* The cipher, the ciphertext, its serialisation together with the base64 chain and
\* the text, which are not tested.
former_encrypt_message_for_user ==
  Proc(<<Call({"cipher"}, {}), Call({"msg"}, {"cipher"}),
         Call({"serialized", "b64", "text"}, {"msg", "cipher"})>>,
       {"b64", "serialized", "msg", "cipher"}, {"text"})

Funs ==
  [hmac_sha256 |-> hmac_sha256,
   crypto_encrypt_aes_gcm |-> crypto_encrypt_aes_gcm,
   crypto_encrypt_chacha20 |-> crypto_encrypt_chacha20,
   crypto_encrypt_aes_cbc |-> crypto_encrypt_aes_cbc,
   crypto_encrypt |-> crypto_encrypt,
   crypto_decrypt |-> crypto_decrypt,
   identity_key_store_get_key |-> identity_key_store_get_key,
   init_client_signal_protocol |-> init_client_signal_protocol,
   init_enhanced_signal_protocol |-> init_enhanced_signal_protocol,
   former_hmac_sha256 |-> former_hmac_sha256,
   former_encrypt_aes_gcm |-> former_encrypt_aes_gcm,
   former_encrypt_chacha20 |-> former_encrypt_chacha20,
   encrypt_message_multi_algo |-> encrypt_message_multi_algo,
   former_encrypt |-> former_encrypt,
   former_decrypt |-> former_decrypt,
   former_get_identity_key_pair |-> former_get_identity_key_pair,
   former_get_identity_key_pair_rest |-> former_get_identity_key_pair_rest,
   former_signal_protocol_init |-> former_signal_protocol_init,
   former_init_client_signal_protocol |-> former_init_client_signal_protocol,
   former_encrypt_message_for_user |-> former_encrypt_message_for_user]

-----------------------------------------------------------------------------
(* A call of one of them after the other, every call inside failing or not *)

VARIABLES fn,      \* the function that runs, or ran last
          next,    \* the number of its next call
          held,    \* what it has got and not freed
          result,  \* "run", "ok" or "err"
          stray    \* it freed something it did not hold

cryptoVars == <<fn, next, held, result, stray>>

CryptoInit == fn \in DOMAIN Funs /\ next = 1 /\ held = {} /\ result = "run" /\ stray = FALSE

Release(set) == held' = held \ set /\ stray' = (stray \/ ~(set \subseteq held))

Begin(f) ==
  /\ result # "run"
  /\ fn' = f /\ next' = 1 /\ held' = {} /\ result' = "run"
  /\ UNCHANGED stray

CallSucceeds ==
  /\ result = "run" /\ next <= Len(Funs[fn].calls)
  /\ held' = held \cup Funs[fn].calls[next].get
  /\ next' = next + 1
  /\ UNCHANGED <<fn, result, stray>>

CallFails ==
  /\ result = "run" /\ next <= Len(Funs[fn].calls)
  /\ Release(Funs[fn].calls[next].err)
  /\ result' = "err"
  /\ UNCHANGED <<fn, next>>

Returns ==
  /\ result = "run" /\ next = Len(Funs[fn].calls) + 1
  /\ Release(Funs[fn].end)
  /\ result' = "ok"
  /\ UNCHANGED <<fn, next>>

CryptoNext == (\E f \in DOMAIN Funs : Begin(f)) \/ CallSucceeds \/ CallFails \/ Returns

CryptoSpec == CryptoInit /\ [][CryptoNext]_cryptoVars

-----------------------------------------------------------------------------
(* Properties *)

\* The three functions with an error path that loses something: the HMAC of both
\* servers (crypto_hmac_sha256_cleanup frees nothing, "already cleaned in final",
\* and the former final frees the wrapper alone) and the former
\* init_client_signal_protocol.
Lossy == {"hmac_sha256", "former_hmac_sha256", "former_init_client_signal_protocol"}

\* Whatever call fails, a function returns with nothing but what it promises its
\* caller, and with nothing at all when it reports an error.
GivesBack ==
  /\ result = "ok" => held = Funs[fn].out
  /\ result = "err" /\ fn \notin Lossy => held = {}

\* No function frees what it does not hold: nothing twice, and nothing that the
\* failed call did not deliver.
FreesOnlyHeld == ~stray
=============================================================================
