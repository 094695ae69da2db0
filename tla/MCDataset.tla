------------------------------- MODULE MCDataset -------------------------------
EXTENDS DatasetProps

CONSTANTS w
=============================================================================
