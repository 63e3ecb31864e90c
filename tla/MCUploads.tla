----------------------------- MODULE MCUploads -----------------------------
(* Two processes that upload a file of two parts, with two completion requests *)
(* in the server, on a bucket of any of the four providers.                    *)
EXTENDS Uploads

AllProviders == {"s3", "azure", "gcs", "file"}
=============================================================================
