--------------------------- MODULE MCWebhookRetry ---------------------------
EXTENDS WebhookRetry, TLC

=============================================================================
