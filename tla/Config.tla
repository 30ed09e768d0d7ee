------------------------------- MODULE Config -------------------------------
(***************************************************************************)
(* The configuration of the service (config/config.go): the defaults of    *)
(* its flags and the checks startup makes before anything runs.  Durations *)
(* are in milliseconds, sizes in bytes.                                    *)
(***************************************************************************)
EXTENDS EventDocument

Second == 1000
MiB    == 1048576
MaxInt32 == 2147483647

registerServiceFlags ==
    [leader_election |->
        [session_ttl |-> 15 * Second, lock_delay |-> Second, retry_interval |-> 10 * Second,
         error_cooldown |-> 5 * Second, monitor_interval |-> 5 * Second],
     profile_distribution |-> [reconcile_interval |-> 10 * Second],
     imap_polling |->
        [tick_interval |-> Second, max_concurrency |-> 50, shutdown_timeout |-> 10 * Second,
         fetch_batch_size |-> 50, max_message_size |-> 40 * MiB, max_messages_per_poll |-> 500,
         max_open_connections |-> 500],
     mime |->
        [max_body_size |-> MiB, max_attachment_size |-> 10 * MiB,
         max_attachments_total_size |-> 20 * MiB, max_attachments |-> 15],
     storage |->
        [upload_timeout |-> 120 * Second, max_concurrent_uploads |-> 20, max_attachment_attempts |-> 3],
     contacts |-> [search_timeout |-> 5 * Second, max_concurrent_searches |-> 20],
     inbound_event |->
        [MaxBodyTextSize |-> 65536, MaxAddressesPerType |-> 100, MaxAttachments |-> 100,
         MaxFieldSize |-> 1024, MaxPayloadSize |-> MiB],
     outbox |->
        [publish_timeout |-> 5 * Second, poll_interval |-> Second, batch_size |-> 100,
         lease_duration |-> 60 * Second, retry_initial_interval |-> Second,
         retry_max_interval |-> 30 * Second, retention |-> 259200 * Second,
         cleanup_interval |-> 3600 * Second, cleanup_batch |-> 1000]]

\* Consul accepts session TTLs only within this range; a lock delay of zero would
\* fall back to Consul's own.
ValidLeaderElection(c) ==
    /\ c.session_ttl \in 10 * Second .. 86400 * Second
    /\ \A f \in {"lock_delay", "retry_interval", "error_cooldown", "monitor_interval"} : c[f] > 0

\* The other stop hooks need part of the 15 seconds fx gives them together.
ValidIMAPPolling(c) ==
    /\ c.tick_interval > 0 /\ c.max_concurrency >= 1
    /\ c.shutdown_timeout > 0 /\ c.shutdown_timeout < 15 * Second
    /\ c.fetch_batch_size >= 1 /\ c.max_messages_per_poll >= c.fetch_batch_size
    /\ c.max_message_size >= 1 /\ c.max_message_size < MaxInt32
    /\ c.max_open_connections >= c.max_concurrency

ValidMIME(c, maxMessageSize) ==
    /\ c.max_body_size \in 1 .. maxMessageSize
    /\ c.max_attachment_size \in 1 .. maxMessageSize
    /\ c.max_attachments_total_size \in c.max_attachment_size .. maxMessageSize
    /\ c.max_attachments >= 1

ValidStorage(c) ==
    c.upload_timeout > 0 /\ c.max_concurrent_uploads >= 1 /\ c.max_attachment_attempts >= 1

ValidContacts(c) == c.search_timeout > 0 /\ c.max_concurrent_searches >= 1

\* The relay keeps twice the publish timeout of a lease in reserve.
ValidOutbox(c) ==
    /\ \A f \in {"publish_timeout", "poll_interval", "cleanup_interval", "retention"} : c[f] > 0
    /\ c.batch_size >= 1 /\ c.cleanup_batch >= 1
    /\ c.lease_duration >= 4 * c.publish_timeout
    /\ c.retry_initial_interval > 0 /\ c.retry_max_interval >= c.retry_initial_interval

\* Config.validate, without the addresses and URLs.
validate(c) ==
    /\ ValidLeaderElection(c.leader_election)
    /\ c.profile_distribution.reconcile_interval > 0
    /\ ValidIMAPPolling(c.imap_polling)
    /\ ValidMIME(c.mime, c.imap_polling.max_message_size)
    /\ ValidStorage(c.storage)
    /\ ValidContacts(c.contacts)
    /\ ValidLimits(c.inbound_event, ServiceCaps)
    /\ ValidOutbox(c.outbox)

\* A service started with no flag but the required addresses starts; the longest
\* event the default limits allow is 993,080 bytes.
ASSUME DefaultsAccepted ==
    /\ validate(registerServiceFlags)
    /\ WorstCaseSize(registerServiceFlags.inbound_event, ServiceCaps) = 993080
=============================================================================
